---- MODULE Spec2Model ----
(***************************************************************************)
(* Model of the quilox-auth request pipeline: the two JWT authentication   *)
(* gates (authMiddleware, verifyToken), the jwtUtils token helpers, the    *)
(* RBAC middleware with its permission catalog, the Express dispatch that  *)
(* chains them in front of a route handler, the password module            *)
(* (hashPassword, comparePassword, the pre-save hook) and the account      *)
(* controllers that update and delete the documents of the users           *)
(* collection.                                                             *)
(*                                                                         *)
(* JavaScript values are modelled as follows.                              *)
(*   - a claims object (JWT payload, req.user) is a TLA+ record whose      *)
(*     DOMAIN is the set of properties the object has;                     *)
(*   - undefined and null are the records UNDEFINED and NULL;              *)
(*   - a header string is the sequence of its maximal space-free runs      *)
(*     ("words") and its single space characters, in order;                *)
(*   - a JWT string is a word carrying its payload and its HS256           *)
(*     signature, the signature being the pair (key, signed content).      *)
(* Time is in seconds, as in the exp / iat / nbf claims.                   *)
(***************************************************************************)
EXTENDS Integers, Sequences, FiniteSets, TLC

VARIABLES
    now,      \* the wall clock, seconds
    env,      \* process.env: the secrets read at module load / per call
    pc,       \* position of the request in flight: idle, auth, rbac, handler, done
    req,      \* the request in flight: its route (gate, rbac, R) and its header
    user,     \* req.user
    res,      \* the response sent for the request (status 0: none sent)
    obs,      \* per-request observation counters (calls of next, lookups, ...)
    tin,      \* jwtUtils round trip: the inputs (payload, expiresIn)
    tout,     \* jwtUtils round trip: result of generateToken, then of verifyToken
    tpc,      \* jwtUtils round trip: start, issued, then the last use of the token
    db,       \* the users collection: one document, or null, per id
    ares,     \* the response of the last account controller call
    rng,      \* the number of salts the random generator has handed out
    hashes,   \* the hashing calls made so far: input and result of each
    cmp,      \* the last comparePassword call: its arguments and its result
    catalog,  \* the module-level permissions object of rbacMiddleware.js
    inflight, \* the requests the process serves: one record per request
    document  \* a User document in memory: its fields and what was modified

vars == <<now, env, pc, req, user, res, obs, tin, tout, tpc, db, ares, rng, hashes, cmp, catalog, inflight, document>>

-----------------------------------------------------------------------------
(* Bounds of the model *)

MaxTime == 2
MaxHeaderLen == 4
MaxReqLen == 2
MaxTtl == 2

-----------------------------------------------------------------------------
(* JavaScript values *)

UNDEFINED == [jsUndefined |-> TRUE]
NULL == [jsNull |-> TRUE]

\* !v for the values that occur as req.user / decodedPayload: objects are truthy
Falsy(v) == v = UNDEFINED \/ v = NULL

HasProp(o, p) == p \in DOMAIN o

\* o with property p set to v (added when absent)
SetProp(o, p, v) == [n \in (DOMAIN o) \cup {p} |-> IF n = p THEN v ELSE o[n]]

\* typeof v === 'object': true of objects and of null, false of undefined and
\* of strings (the records that carry a kind)
TypeofObject(v) == ~HasProp(v, "jsUndefined") /\ ~HasProp(v, "kind")

\* the empty object {}
EmptyObject == [p \in {} |-> 0]

\* typeof v === 'string': the records that carry a kind, numbers apart
TypeofString(v) == HasProp(v, "kind") /\ v.kind # "number"

\* Array.prototype.includes
Includes(arr, x) == \E i \in DOMAIN arr : arr[i] = x

-----------------------------------------------------------------------------
(* Header strings and String.prototype.split(' ') *)

SP == [kind |-> "sp"]
Word(w) == [kind |-> "word", text |-> w]
EmptyStr == [kind |-> "empty"]

\* string concatenation of two space-free runs; two non-empty runs give a
\* longer word that is neither a scheme nor a token
Concat(a, b) ==
    IF a = EmptyStr THEN b
    ELSE IF b = EmptyStr THEN a
    ELSE Word("?")

RECURSIVE SplitRec(_, _, _, _)
SplitRec(s, i, cur, acc) ==
    IF i > Len(s) THEN Append(acc, cur)
    ELSE IF s[i] = SP THEN SplitRec(s, i + 1, EmptyStr, Append(acc, cur))
    ELSE SplitRec(s, i + 1, Concat(cur, s[i]), acc)

\* authHeader.split(' ')
Split(s) == SplitRec(s, 1, EmptyStr, <<>>)

\* arr[1] of a JavaScript array (second element, undefined past the end)
Index1(arr) == IF Len(arr) >= 2 THEN arr[2] ELSE UNDEFINED

\* !token for a string-or-undefined value
NoToken(t) == t = UNDEFINED \/ t = EmptyStr

-----------------------------------------------------------------------------
(* jsonwebtoken: sign and verify (HS256) *)

\* header.payload.signature: the signature is HMAC(key, header.payload)
Hmac(key, claims) == [key |-> key, over |-> claims]
Jwt(claims, sig) == [kind |-> "jwt", claims |-> claims, sig |-> sig]

JsonWebTokenError == "JsonWebTokenError"
TokenExpiredError == "TokenExpiredError"
NotBeforeError == "NotBeforeError"

Failure(name) == [ok |-> FALSE, name |-> name]
Success(v) == [ok |-> TRUE, value |-> v]

\* jwt.sign(payload, secret, { expiresIn }) at time t, for an object payload;
\* expiresIn < 0 stands for an expiresIn of undefined, which the validation of
\* the options rejects
jwt_sign(payload, secret, expiresIn, t) ==
    IF secret = "" THEN Failure("Error")
    ELSE IF expiresIn < 0 THEN Failure("Error")
    ELSE IF HasProp(payload, "exp") THEN Failure("Error")
    ELSE LET \* payload.iat || now: an iat of 0 is falsy and replaced
             timestamp == IF HasProp(payload, "iat") /\ payload.iat # 0
                          THEN payload.iat ELSE t
             stamped == SetProp(payload, "iat", timestamp)
             claims == SetProp(stamped, "exp", timestamp + expiresIn)
         IN  Success(Jwt(claims, Hmac(secret, claims)))

\* jwt.verify(token, secret) at time t
jwt_verify(token, secret, t) ==
    IF token.kind # "jwt" THEN Failure(JsonWebTokenError)          \* jwt malformed
    ELSE IF secret = "" THEN Failure(JsonWebTokenError)            \* secret must be provided
    ELSE IF token.sig # Hmac(secret, token.claims)
         THEN Failure(JsonWebTokenError)                           \* invalid signature
    ELSE IF HasProp(token.claims, "nbf") /\ token.claims.nbf > t
         THEN Failure(NotBeforeError)                              \* jwt not active
    ELSE IF HasProp(token.claims, "exp") /\ t >= token.claims.exp
         THEN Failure(TokenExpiredError)                           \* jwt expired
    ELSE Success(token.claims)

-----------------------------------------------------------------------------
(* jwtUtils: generateToken and verifyToken *)

JWT_SECRET == env.JWT_SECRET

\* '1h', in seconds
TOKEN_EXPIRATION == 3600

\* generateToken that signs with the default lifetime whatever the caller gave
generateTokenDefaultTtl(payload, expiresIn, t) ==
    LET r == jwt_sign(payload, JWT_SECRET, TOKEN_EXPIRATION, t)
    IN  IF r.ok THEN r ELSE Failure("Error")

\* the expiresIn argument left out by the caller (undefined)
NoTtl == -1

\* generateToken without the default value of its second parameter
generateTokenNoDefault(payload, expiresIn, t) ==
    IF Falsy(payload) \/ ~TypeofObject(payload)
    THEN Failure("Payload must be a non-null object to generate a token.")
    ELSE LET r == jwt_sign(payload, JWT_SECRET, expiresIn, t)
         IN  IF r.ok THEN r ELSE Failure("Could not generate token.")

\* generateToken(payload, expiresIn = TOKEN_EXPIRATION) at time t: the guard
\* on the payload, then jwt.sign, whose errors the catch rethrows
generateToken(payload, expiresIn, t) ==
    IF Falsy(payload) \/ ~TypeofObject(payload)
    THEN Failure("Payload must be a non-null object to generate a token.")
    ELSE LET r == jwt_sign(payload, JWT_SECRET,
                           IF expiresIn = NoTtl THEN TOKEN_EXPIRATION ELSE expiresIn, t)
         IN  IF r.ok THEN r ELSE Failure("Could not generate token.")

\* verifyToken passing { ignoreExpiration: true } to jwt.verify
verifyTokenIgnoreExpiration(token, t) ==
    IF NoToken(token) \/ ~TypeofString(token) THEN NULL
    ELSE LET r == jwt_verify(token, JWT_SECRET, t)
         IN  IF r.ok THEN r.value
             ELSE IF r.name = TokenExpiredError THEN token.claims
             ELSE NULL

\* verifyToken reading the payload with jwt.decode, which checks no signature
verifyTokenDecodeOnly(token, t) ==
    IF NoToken(token) \/ ~TypeofString(token) THEN NULL
    ELSE IF token.kind # "jwt" THEN NULL
    ELSE IF HasProp(token.claims, "exp") /\ t >= token.claims.exp THEN NULL
    ELSE token.claims

\* verifyToken with no try / catch around jwt.verify: the error escapes
verifyTokenNoCatch(token, t) ==
    IF NoToken(token) \/ ~TypeofString(token) THEN NULL
    ELSE LET r == jwt_verify(token, JWT_SECRET, t)
         IN  IF r.ok THEN r.value ELSE r

\* verifyToken(token) at time t: the payload, or null
verifyToken(token, t) ==
    IF NoToken(token) \/ ~TypeofString(token) THEN NULL
    ELSE LET r == jwt_verify(token, JWT_SECRET, t)
         IN  IF r.ok THEN r.value ELSE NULL

-----------------------------------------------------------------------------
(* Outcomes of a middleware invocation *)

\* res.status(status).json(body), returned without calling next
Respond(status, body, verifies) ==
    [kind |-> "respond", status |-> status, body |-> body,
     user |-> UNDEFINED, sets |-> 0, verifies |-> verifies]

\* req.user = u; next()
Attach(u, verifies) ==
    [kind |-> "next", status |-> 0, body |-> "",
     user |-> u, sets |-> 1, verifies |-> verifies]

\* req.headers.authorization: absent, or a string
NoHeader == [present |-> FALSE, text |-> <<>>]
Header(s) == [present |-> TRUE, text |-> s]

\* !authHeader: undefined or the empty string
MissingHeader(h) == ~h.present \/ h.text = <<>>

-----------------------------------------------------------------------------
(* src/src/middleware/authMiddleware.js *)

\* lines 41-54 with the check of the decoded payload left out
authMiddlewareUnchecked(h, t) ==
    IF MissingHeader(h)
    THEN Respond(401, "Authorization header is missing.", 0)
    ELSE LET token == Index1(Split(h.text))
         IN  IF NoToken(token)
             THEN Respond(401, "Authorization token is missing or malformed.", 0)
             ELSE IF token.kind = "jwt" THEN Attach(token.claims, 1)
                  ELSE Attach(NULL, 1)

\* the missing-header branch falling through to next()
authMiddlewareHeaderOptional(h, t) ==
    IF MissingHeader(h)
    THEN [kind |-> "next", status |-> 0, body |-> "",
          user |-> UNDEFINED, sets |-> 0, verifies |-> 0]
    ELSE LET token == Index1(Split(h.text))
         IN  IF NoToken(token)
             THEN Respond(401, "Authorization token is missing or malformed.", 0)
             ELSE LET decodedPayload == verifyToken(token, t)
                  IN  IF Falsy(decodedPayload)
                      THEN Respond(401, "Invalid or expired token. Authentication failed.", 1)
                      ELSE Attach(decodedPayload, 1)

\* the gate looking the decoded id up in the users collection and turning
\* the request away when the account is gone
authMiddlewareChecksAccount(h, t) ==
    IF MissingHeader(h)
    THEN Respond(401, "Authorization header is missing.", 0)
    ELSE LET token == Index1(Split(h.text))
         IN  IF NoToken(token)
             THEN Respond(401, "Authorization token is missing or malformed.", 0)
             ELSE LET decodedPayload == verifyToken(token, t)
                  IN  IF Falsy(decodedPayload)
                      THEN Respond(401, "Invalid or expired token. Authentication failed.", 1)
                      ELSE IF /\ HasProp(decodedPayload, "id")
                              /\ decodedPayload.id \in DOMAIN db
                              /\ db[decodedPayload.id] = NULL
                      THEN Respond(401, "Invalid or expired token. Authentication failed.", 1)
                      ELSE Attach(decodedPayload, 1)

authMiddleware(h, t) ==
    IF MissingHeader(h)
    THEN Respond(401, "Authorization header is missing.", 0)
    ELSE LET token == Index1(Split(h.text))
         IN  IF NoToken(token)
             THEN Respond(401, "Authorization token is missing or malformed.", 0)
             ELSE LET decodedPayload == verifyToken(token, t)
                  IN  IF Falsy(decodedPayload)
                      THEN Respond(401, "Invalid or expired token. Authentication failed.", 1)
                      ELSE Attach(decodedPayload, 1)

-----------------------------------------------------------------------------
(* src/middleware/authMiddleware.js *)

TOKEN_SECRET == env.TOKEN_SECRET

\* the catch block, lines 63-79
verifyTokenCatch(name) ==
    IF name = TokenExpiredError
    THEN Respond(401, "Invalid Token: Token has expired.", 1)
    ELSE IF name = JsonWebTokenError
    THEN Respond(401, "Invalid Token: Signature is not valid.", 1)
    ELSE Respond(500, "Internal Server Error.", 1)

\* exports.verifyToken, the try block with its catch
verifyTokenGate(h, t) ==
    IF MissingHeader(h)
    THEN Respond(401, "Access Denied: No token provided.", 0)
    ELSE LET token == Index1(Split(h.text))
         IN  IF NoToken(token)
             THEN Respond(401, "Access Denied: Malformed token.", 0)
             ELSE LET verified == jwt_verify(token, TOKEN_SECRET, t)
                  IN  IF verified.ok
                      THEN Attach(verified.value, 1)
                      ELSE verifyTokenCatch(verified.name)

-----------------------------------------------------------------------------
(* src/src/middleware/rbacMiddleware.js *)

permissions ==
    [admin  |-> <<"create:user", "read:user", "update:user", "delete:user",
                  "create:post", "read:post", "update:post", "delete:post",
                  "view:dashboard", "manage:all">>,
     editor |-> <<"create:post", "read:post", "update:post", "view:own:stats">>,
     viewer |-> <<"read:post">>]

\* the properties every object literal inherits from Object.prototype
ObjectPrototypeProps ==
    {"constructor", "__proto__", "toString", "toLocaleString", "valueOf",
     "hasOwnProperty", "isPrototypeOf", "propertyIsEnumerable",
     "__defineGetter__", "__defineSetter__", "__lookupGetter__", "__lookupSetter__"}

\* the role looked up from the id of the caller instead of from its claims
RoleKeyFromId(u) ==
    IF HasProp(u, "id") /\ u.id = 1 THEN "admin"
    ELSE IF HasProp(u, "role") THEN u.role ELSE "undefined"

\* the property key of permissions[req.user.role]: a missing role reads as
\* undefined, whose key is the string "undefined"
RoleKey(u) == IF HasProp(u, "role") THEN u.role ELSE "undefined"

\* permissions[userRole]: an own array, an inherited member of
\* Object.prototype (truthy, without an includes method), or undefined
Lookup(key) ==
    IF key \in DOMAIN catalog THEN [kind |-> "array", items |-> catalog[key]]
    ELSE IF key \in ObjectPrototypeProps THEN [kind |-> "inherited", items |-> <<>>]
    ELSE [kind |-> "undefined", items |-> <<>>]

\* outcome of the RBAC middleware; lookups counts the reads of the catalog
RbacRespond(status, body, lookups) ==
    [kind |-> "respond", status |-> status, body |-> body, lookups |-> lookups]
RbacNext(lookups) ==
    [kind |-> "next", status |-> 0, body |-> "", lookups |-> lookups]
\* userPermissions.includes is not a function
RbacThrow(lookups) ==
    [kind |-> "throw", status |-> 0, body |-> "TypeError", lookups |-> lookups]

\* req.user === undefined in place of !req.user
NoIdentityUndefinedOnly(u) == u = UNDEFINED

\* !req.user
NoIdentity(u) == Falsy(u)

\* the universal grant never recognised
HoldsManageAllNever(userPermissions) == FALSE

\* userPermissions.includes('manage:all')
HoldsManageAll(userPermissions) == Includes(userPermissions, "manage:all")

\* requiredPermissions.some(...) in place of every
hasSomeRequiredPermission(requiredPermissions, userPermissions) ==
    \E i \in DOMAIN requiredPermissions :
        Includes(userPermissions, requiredPermissions[i])

\* requiredPermissions.every(permission => userPermissions.includes(permission))
hasRequiredPermissions(requiredPermissions, userPermissions) ==
    \A i \in DOMAIN requiredPermissions :
        Includes(userPermissions, requiredPermissions[i])

\* the middleware returned by rbacMiddleware(requiredPermissions), applied to
\* a request whose req.user is u
rbacMiddleware(requiredPermissions, u) ==
    IF NoIdentity(u)
    THEN RbacRespond(401, "Authentication required.", 0)
    ELSE IF Falsy(u) THEN RbacThrow(0)   \* reading .role of undefined or null throws
    ELSE LET userPermissions == Lookup(RoleKey(u))
         IN  IF userPermissions.kind = "undefined"
             THEN RbacRespond(403, "Your role does not have any permissions defined.", 1)
             ELSE IF userPermissions.kind # "array"
             THEN RbacThrow(1)
             ELSE IF HoldsManageAll(userPermissions.items)
             THEN RbacNext(1)
             ELSE IF hasRequiredPermissions(requiredPermissions, userPermissions.items)
             THEN RbacNext(1)
             ELSE RbacRespond(403, "Access denied. You do not have the required permissions.", 1)

-----------------------------------------------------------------------------
(* Requests: the strings a client can put in the Authorization header and  *)
(* the routes a request can hit                                            *)

\* a token the server signed at time 0
IssuedAt0(payload, secret, expiresIn) == jwt_sign(payload, secret, expiresIn, 0).value

PoolRoles == {"admin", "editor", "viewer", "user", "constructor", "__proto__"}

AdminToken == IssuedAt0([id |-> 1, role |-> "admin"], "s1", TOKEN_EXPIRATION)
ViewerToken == IssuedAt0([id |-> 1, role |-> "viewer"], "s1", TOKEN_EXPIRATION)
\* authController.generateToken signs { id } alone
IdOnlyToken == IssuedAt0([id |-> 1], "s1", TOKEN_EXPIRATION)
ShortToken == IssuedAt0([id |-> 1, role |-> "admin"], "s1", 1)
OtherSecretToken == IssuedAt0([id |-> 1, role |-> "admin"], "s2", TOKEN_EXPIRATION)
\* the viewer token with its role rewritten and its signature kept
TamperedToken == Jwt(SetProp(ViewerToken.claims, "role", "admin"), ViewerToken.sig)
\* a token carrying nbf = 1: not yet valid at time 0
NotYetValidToken == IssuedAt0([id |-> 1, role |-> "admin", nbf |-> 1], "s1", TOKEN_EXPIRATION)
Garbage == Word("garbage")

TokenPool ==
    {IssuedAt0([id |-> 1, role |-> r], "s1", TOKEN_EXPIRATION) : r \in PoolRoles}
    \cup {IdOnlyToken, ShortToken, OtherSecretToken, TamperedToken,
          NotYetValidToken, Garbage}

Schemes == {Word("Bearer"), Word("bearer"), Word("Basic")}
Atoms == {SP} \cup Schemes \cup TokenPool

\* two adjacent words are one word: a string is an alternation of runs and spaces
WellFormed(s) == \A i \in 1..(Len(s) - 1) : s[i] = SP \/ s[i + 1] = SP

HeaderTexts ==
    UNION {{s \in [1..n -> Atoms] : WellFormed(s)} : n \in 0..MaxHeaderLen}

Headers == {NoHeader} \cup {Header(s) : s \in HeaderTexts}

\* 'Bearer <token>'
Bearer(tok) == Header(<<Word("Bearer"), SP, tok>>)

PermUniverse == {"read:post", "delete:post", "manage_users"}

ReqLists == UNION {[1..n -> PermUniverse] : n \in 0..MaxReqLen}

JwtGates == {"authMiddleware", "verifyToken"}

Route(gate, rbac, R) == [gate |-> gate, rbac |-> rbac, R |-> R]

\* authRoutes: router.use(<gate>), then /profile (no RBAC) and /users (RBAC)
AuthRoutes ==
    {Route(g, FALSE, <<>>) : g \in JwtGates}
    \cup {Route(g, TRUE, <<"manage_users">>) : g \in JwtGates}

\* a gate followed by rbacMiddleware(R), as in userRoutes / postRoutes
GatedRoutes == {Route(g, TRUE, R) : g \in JwtGates, R \in ReqLists}

\* rbacMiddleware(R) mounted with no authentication gate before it
UngatedRoutes == {Route("none", TRUE, R) : R \in ReqLists}

Request(route, header, user0) == [route |-> route, header |-> header, user0 |-> user0]

Requests ==
    {Request(r, h, UNDEFINED) : r \in AuthRoutes, h \in Headers}
    \cup {Request(r, h, UNDEFINED) :
            r \in GatedRoutes, h \in {NoHeader} \cup {Bearer(tok) : tok \in TokenPool}}
    \cup {Request(r, NoHeader, u) : r \in UngatedRoutes, u \in {UNDEFINED, NULL}}

NoRequest == Request(Route("none", FALSE, <<>>), NoHeader, UNDEFINED)
NoResponse == [status |-> 0, body |-> ""]
NoObs == [authRuns |-> 0, authNext |-> 0, authStatus |-> 0, userSets |-> 0,
          verifies |-> 0, rbacRuns |-> 0, rbacNext |-> 0, rbacStatus |-> 0,
          lookups |-> 0, sent |-> 0, threw |-> 0, handlerRuns |-> 0]

-----------------------------------------------------------------------------
(* bcrypt: genSalt, hash and compare                                       *)

\* a JavaScript string of the password module: a plain text as the sequence
\* of its bytes, or a bcrypt hash string '$2b$<cost>$<salt><digest>'
Str(chars) == [kind |-> "string", chars |-> chars]
HashStr(cost, salt, digest) ==
    [kind |-> "string", cost |-> cost, salt |-> salt, digest |-> digest]

\* a value of type number
NUMBER == [kind |-> "number"]

\* typeof v === 'string'
IsString(v) == HasProp(v, "kind") /\ v.kind = "string"

\* bcrypt reads the first 72 bytes of the password and ignores the rest
BCRYPT_MAX_BYTES == 72

Truncate(chars) ==
    SubSeq(chars, 1, IF Len(chars) < BCRYPT_MAX_BYTES THEN Len(chars) ELSE BCRYPT_MAX_BYTES)

\* the digest is a one-way function of the cost, the salt and the bytes read
Digest(cost, salt, chars) == [cost |-> cost, salt |-> salt, key |-> Truncate(chars)]

\* a generator that hands out the same salt at every call
genSaltFixed(rounds, n) == [rounds |-> rounds, bytes |-> 0]

\* bcrypt.genSalt(rounds): 16 bytes from the random generator; the n-th draw
\* is a value no earlier draw gave
genSalt(rounds, n) == [rounds |-> rounds, bytes |-> n]

\* the bytes of a string: those of a plain text, or the 60 characters of a
\* bcrypt hash string, which no plain text of the model shares
Chars(s) == IF HasProp(s, "chars") THEN s.chars ELSE [i \in 1..60 |-> s]

\* bcrypt.hash(data, salt) for a string data and a generated salt
bcrypt_hash(data, salt) ==
    HashStr(salt.rounds, salt.bytes, Digest(salt.rounds, salt.bytes, Chars(data)))

\* bcrypt.compare(data, encrypted) for two strings: false when encrypted is
\* no bcrypt hash string, else the digests are compared
bcrypt_compare(data, encrypted) ==
    IF ~HasProp(encrypted, "digest") THEN FALSE
    ELSE Digest(encrypted.cost, encrypted.salt, Chars(data)) = encrypted.digest

-----------------------------------------------------------------------------
(* passwordUtils (src/unnamed/part_002) and the userModel pre-save hook    *)

\* parseInt(process.env.SALT_ROUNDS, 10) || 10 with SALT_ROUNDS unset
SALT_ROUNDS == 10

\* hashPassword(password), the random generator having made n draws so far
hashPassword(password, n) ==
    IF ~IsString(password) THEN Failure("Password must be a string.")
    ELSE Success(bcrypt_hash(password, genSalt(SALT_ROUNDS, n)))

\* comparePassword(plainPassword, hashedPassword)
comparePassword(plainPassword, hashedPassword) ==
    IF ~IsString(plainPassword) \/ ~IsString(hashedPassword)
    THEN Failure("Both passwords must be strings for comparison.")
    ELSE Success(bcrypt_compare(plainPassword, hashedPassword))

\* userSchema.pre('save') for a document whose password is modified:
\* genSalt(10), then hash(this.password, salt)
preSave(password, n) == Success(bcrypt_hash(password, genSalt(10, n)))

\* the hook hashing this.password at every save
preSaveHookAlways(password, modified, n) == bcrypt_hash(password, genSalt(10, n))

\* userSchema.pre('save'): this.password after the hook, the password path
\* being modified or not
preSaveHook(password, modified, n) ==
    IF ~modified THEN password ELSE preSave(password, n).value

\* userSchema.methods.comparePassword, this.password being password
userComparePassword(candidatePassword, password) ==
    bcrypt_compare(candidatePassword, password)

\* credentials handed to the password module
LongPassword(last) == [i \in 1..(BCRYPT_MAX_BYTES + 1) |->
                          IF i <= BCRYPT_MAX_BYTES THEN "a" ELSE last]

\* minlength of the password field of the user schema
MIN_PASSWORD_LENGTH == 8

Passwords == {Str(<<>>), Str(<<"a">>), Str(<<"b">>),
              Str([i \in 1..MIN_PASSWORD_LENGTH |-> "p"]),
              Str(LongPassword("x")), Str(LongPassword("y"))}

NonStrings == {UNDEFINED, NULL, NUMBER}

Credentials == Passwords \cup NonStrings

\* strings that are no bcrypt hash
MalformedHashes == {Str(<<>>), Str(<<"a">>)}

NoCompare == [plain |-> NULL, hashed |-> NULL, result |-> Failure("none")]

PasswordIdle == /\ rng = 0
                /\ hashes = <<>>
                /\ cmp = NoCompare

-----------------------------------------------------------------------------
(* The users collection (userModel) and the account controllers            *)

UserIds == {1, 2}

\* req.params.id: the id of a document, or an id no document ever had
ParamIds == UserIds \cup {3}

Emails == {"a@x.io", "b@x.io"}

\* the enum of the role field
RoleEnum == {"user", "editor", "admin"}

Doc(email, role) == [email |-> email, role |-> role]

SeedUsers == [i \in UserIds |-> IF i = 1 THEN Doc("a@x.io", "admin")
                                        ELSE Doc("b@x.io", "user")]

\* User.findById(id): the document, or null
findById(d, id) == IF id \in DOMAIN d THEN d[id] ELSE NULL

\* the outcome of a query: the collection after it, the document it resolves
\* to, and whether it rejected (validation or duplicate key error)
Resolved(d, doc) == [db |-> d, doc |-> doc, rejected |-> FALSE]
Rejected(d) == [db |-> d, doc |-> NULL, rejected |-> TRUE]

\* User.findByIdAndUpdate(id, update, { new: true, runValidators: true })
\* for an update that sets the properties of the record update
findByIdAndUpdate(d, id, update) ==
    IF HasProp(update, "role") /\ update.role \notin RoleEnum
    THEN Rejected(d)                                   \* enum validator
    ELSE IF findById(d, id) = NULL THEN Resolved(d, NULL)
    ELSE IF /\ HasProp(update, "email")
            /\ \E j \in DOMAIN d : j # id /\ d[j] # NULL /\ d[j].email = update.email
    THEN Rejected(d)                                   \* unique index on email
    ELSE LET doc == [p \in DOMAIN d[id] |->
                        IF HasProp(update, p) THEN update[p] ELSE d[id][p]]
         IN  Resolved([d EXCEPT ![id] = doc], doc)

\* User.findByIdAndDelete(id)
findByIdAndDelete(d, id) ==
    IF findById(d, id) = NULL THEN Resolved(d, NULL)
    ELSE Resolved([d EXCEPT ![id] = NULL], d[id])

\* what a controller leaves behind: the collection and the response it sent
Handled(d, status, message) == [db |-> d, res |-> [status |-> status, body |-> message]]

\* updateProfile passing { email, role } to findByIdAndUpdate
updateProfileWithRole(d, reqUser, body) ==
    LET userId == IF HasProp(reqUser, "id") THEN reqUser.id ELSE 0
        q == findByIdAndUpdate(d, userId, [email |-> body.email, role |-> body.role])
    IN  IF q.rejected THEN Handled(d, 500, "Server error")
        ELSE IF q.doc = NULL THEN Handled(d, 404, "User not found")
        ELSE Handled(q.db, 200, "Profile updated successfully")

\* exports.updateProfile: req.user is the identity the gate attached
updateProfile(d, reqUser, body) ==
    LET userId == IF HasProp(reqUser, "id") THEN reqUser.id ELSE 0
        q == findByIdAndUpdate(d, userId, [email |-> body.email])
    IN  IF q.rejected THEN Handled(d, 500, "Server error")
        ELSE IF q.doc = NULL THEN Handled(d, 404, "User not found")
        ELSE Handled(q.db, 200, "Profile updated successfully")

\* exports.updateUserById
updateUserById(d, id, body) ==
    LET q == findByIdAndUpdate(d, id, [email |-> body.email, role |-> body.role])
    IN  IF q.rejected THEN Handled(d, 500, "Server error")
        ELSE IF q.doc = NULL THEN Handled(d, 404, "User not found")
        ELSE Handled(q.db, 200, "User updated successfully")

\* exports.deleteUserById
deleteUserById(d, id) ==
    LET q == findByIdAndDelete(d, id)
    IN  IF q.doc = NULL THEN Handled(d, 404, "User not found")
        ELSE Handled(q.db, 200, "User deleted successfully")

AccountIdle == /\ db = SeedUsers
               /\ ares = [status |-> 0, body |-> ""]

\* no document is held in memory
NoDoc == [password |-> NULL, modified |-> FALSE, stored |-> NULL,
          plain |-> NULL, savedPlain |-> NULL, lastHash |-> NULL, saves |-> 0]

\* the catalog as the module defines it; no request is being served and no
\* document is held
ServerIdle == /\ catalog = permissions
              /\ inflight = <<>>
              /\ document = NoDoc

-----------------------------------------------------------------------------
(* Express dispatch of one request through gate, RBAC and handler *)

\* no gate has been applied to the token
NoGate == [name |-> "none", out |-> Respond(0, "", 0)]

NotIssued == [issued |-> Failure("none"), issuedAt |-> 0,
              verified |-> NULL, verifiedAt |-> 0,
              presented |-> NULL, gate |-> NoGate, expired |-> FALSE]

TokenIdle == /\ tin = [payload |-> [id |-> 1], expiresIn |-> 1]
             /\ tout = NotIssued
             /\ tpc = "start"

PipelineIdle == /\ pc = "idle"
                /\ req = NoRequest
                /\ user = UNDEFINED
                /\ res = NoResponse
                /\ obs = NoObs

\* jwtUtils exits the process at load when JWT_SECRET is unset
Envs == [JWT_SECRET : {"s1"}, TOKEN_SECRET : {"s1", "s2", ""}]

Init == /\ now = 0
        /\ env \in Envs
        /\ PipelineIdle
        /\ TokenIdle
        /\ AccountIdle
        /\ PasswordIdle
        /\ ServerIdle

NewRequest ==
    /\ pc = "idle"
    /\ \E r \in Requests :
        /\ req' = r
        /\ user' = r.user0
        /\ pc' = IF r.route.gate = "none" THEN "rbac" ELSE "auth"
    /\ res' = NoResponse
    /\ obs' = NoObs
    /\ UNCHANGED <<now, env, tin, tout, tpc, db, ares, rng, hashes, cmp, catalog, inflight, document>>

\* what Express does with the outcome of an authentication gate
AfterGate(out) ==
    /\ user' = IF out.sets = 1 THEN out.user ELSE user
    /\ res' = IF out.kind = "respond"
              THEN [status |-> out.status, body |-> out.body] ELSE res
    /\ obs' = [obs EXCEPT !.authRuns = @ + 1,
                          !.authNext = @ + (IF out.kind = "next" THEN 1 ELSE 0),
                          !.authStatus = out.status,
                          !.userSets = @ + out.sets,
                          !.verifies = @ + out.verifies,
                          !.sent = @ + (IF out.kind = "respond" THEN 1 ELSE 0)]
    /\ pc' = IF out.kind = "next"
             THEN (IF req.route.rbac THEN "rbac" ELSE "handler")
             ELSE "done"

RunAuthMiddleware ==
    /\ pc = "auth"
    /\ req.route.gate = "authMiddleware"
    /\ AfterGate(authMiddleware(req.header, now))
    /\ UNCHANGED <<now, env, req, tin, tout, tpc, db, ares, rng, hashes, cmp, catalog, inflight, document>>

RunVerifyToken ==
    /\ pc = "auth"
    /\ req.route.gate = "verifyToken"
    /\ AfterGate(verifyTokenGate(req.header, now))
    /\ UNCHANGED <<now, env, req, tin, tout, tpc, db, ares, rng, hashes, cmp, catalog, inflight, document>>

\* the error-handling middleware of server.js answers a thrown error
ErrorHandler == [status |-> 500, body |-> "Something broke!"]

RunRbac ==
    /\ pc = "rbac"
    /\ LET out == rbacMiddleware(req.route.R, user)
           sent == IF out.kind = "respond"
                   THEN [status |-> out.status, body |-> out.body]
                   ELSE IF out.kind = "throw" THEN ErrorHandler ELSE res
       IN  /\ res' = sent
           /\ obs' = [obs EXCEPT !.rbacRuns = @ + 1,
                                 !.rbacNext = @ + (IF out.kind = "next" THEN 1 ELSE 0),
                                 !.rbacStatus = sent.status,
                                 !.lookups = @ + out.lookups,
                                 !.threw = @ + (IF out.kind = "throw" THEN 1 ELSE 0),
                                 !.sent = @ + (IF out.kind = "next" THEN 0 ELSE 1)]
           /\ pc' = IF out.kind = "next" THEN "handler" ELSE "done"
    /\ UNCHANGED <<now, env, req, user, tin, tout, tpc, db, ares, rng, hashes, cmp, catalog, inflight, document>>

\* the route handler (controller) answers the request
RunHandler ==
    /\ pc = "handler"
    /\ res' = [status |-> 200, body |-> "handled"]
    /\ obs' = [obs EXCEPT !.handlerRuns = @ + 1, !.sent = @ + 1]
    /\ pc' = "done"
    /\ UNCHANGED <<now, env, req, user, tin, tout, tpc, db, ares, rng, hashes, cmp, catalog, inflight, document>>

\* the request is over; its req and res objects are dropped
EndRequest ==
    /\ pc = "done"
    /\ pc' = "idle"
    /\ req' = NoRequest
    /\ user' = UNDEFINED
    /\ res' = NoResponse
    /\ obs' = NoObs
    /\ UNCHANGED <<now, env, tin, tout, tpc, db, ares, rng, hashes, cmp, catalog, inflight, document>>

\* time passes between requests (the middleware chain runs synchronously)
Tick ==
    /\ pc = "idle"
    /\ now < MaxTime
    /\ now' = now + 1
    /\ UNCHANGED <<env, pc, req, user, res, obs, tin, tout, tpc, db, ares, rng, hashes, cmp, catalog, inflight, document>>

Next ==
    \/ NewRequest
    \/ RunAuthMiddleware
    \/ RunVerifyToken
    \/ RunRbac
    \/ RunHandler
    \/ EndRequest
    \/ Tick

Spec == Init /\ [][Next]_vars

-----------------------------------------------------------------------------
(* jwtUtils used on its own: generateToken, then verifyToken as time passes *)

\* payloads a caller hands to generateToken: identity fields, and optionally
\* one registered claim of its own
IdentityInputs == {[id |-> 1], [id |-> 2, role |-> "editor"], [role |-> "admin"]}
RegisteredClaims == {"nbf", "iat", "exp"}
ClaimInputs ==
    IdentityInputs
    \cup {SetProp(k, c, v) : k \in IdentityInputs, c \in RegisteredClaims, v \in 0..MaxTime}

\* what a caller can hand over as the payload: claims, the empty object, null,
\* undefined, a string
PayloadInputs == ClaimInputs \cup {EmptyObject, NULL, UNDEFINED, Word("payload")}

\* expiresIn in seconds: given by the caller, or left out
TokenInputs == [payload : PayloadInputs,
                expiresIn : (1..MaxTtl) \cup {TOKEN_EXPIRATION, NoTtl}]

TokenInit == /\ now = 0
             /\ env \in Envs
             /\ PipelineIdle
             /\ AccountIdle
             /\ PasswordIdle
             /\ ServerIdle
             /\ tin \in TokenInputs
             /\ tout = NotIssued
             /\ tpc = "start"

TGenerate ==
    /\ tpc = "start"
    /\ tout' = [tout EXCEPT !.issued = generateToken(tin.payload, tin.expiresIn, now),
                            !.issuedAt = now]
    /\ tpc' = "issued"
    /\ UNCHANGED <<now, env, pc, req, user, res, obs, tin, db, ares, rng, hashes, cmp, catalog, inflight, document>>

\* the issued token is handed back to verifyToken
TVerify ==
    /\ tpc # "start"
    /\ tout.issued.ok
    /\ LET token == tout.issued.value
           decoded == verifyToken(token, now)
       IN  tout' = [tout EXCEPT !.presented = token,
                                !.verified = decoded,
                                !.verifiedAt = now,
                                !.gate = NoGate,
                                !.expired = @ \/ (decoded = NULL /\ now >= token.claims.exp)]
    /\ tpc' = "verified"
    /\ UNCHANGED <<now, env, pc, req, user, res, obs, tin, db, ares, rng, hashes, cmp, catalog, inflight, document>>

\* what a client without the server secret can make of a token: the signature
\* segment altered, a claim or the expiry rewritten under the old signature, the
\* same or rewritten claims signed with a key of its own, and a string that is
\* no token
ForgerKeys == {"s2", "k"}
AlterSignature(token) ==
    Jwt(token.claims, [key |-> token.sig.key, over |-> token.sig.over, altered |-> TRUE])
RewriteRole(token) == Jwt(SetProp(token.claims, "role", "admin"), token.sig)
ExtendExpiry(token) ==
    Jwt(SetProp(token.claims, "exp", token.claims.exp + TOKEN_EXPIRATION), token.sig)
Resign(token, key) == Jwt(token.claims, Hmac(key, token.claims))

Forgeries(token) ==
    ({AlterSignature(token), RewriteRole(token), ExtendExpiry(token)}
     \cup {Resign(token, k) : k \in ForgerKeys}
     \cup {Resign(RewriteRole(token), k) : k \in ForgerKeys}
     \cup {Garbage}) \ {token}

\* a forgery of the issued token is handed to verifyToken
TVerifyForged ==
    /\ tpc # "start"
    /\ tout.issued.ok
    /\ \E forged \in Forgeries(tout.issued.value) :
         tout' = [tout EXCEPT !.presented = forged,
                              !.verified = verifyToken(forged, now),
                              !.verifiedAt = now,
                              !.gate = NoGate]
    /\ tpc' = "forged"
    /\ UNCHANGED <<now, env, pc, req, user, res, obs, tin, db, ares, rng, hashes, cmp, catalog, inflight, document>>

\* what a caller can hand to verifyToken that is no non-empty string
JunkTokens == {UNDEFINED, NULL, [kind |-> "number"], EmptyStr, EmptyObject, [id |-> 1]}

\* verifyToken is called with something that is no non-empty string
TVerifyJunk ==
    /\ tpc # "start"
    /\ \E junk \in JunkTokens :
         tout' = [tout EXCEPT !.presented = junk,
                              !.verified = verifyToken(junk, now),
                              !.verifiedAt = now,
                              !.gate = NoGate]
    /\ tpc' = "junk"
    /\ UNCHANGED <<now, env, pc, req, user, res, obs, tin, db, ares, rng, hashes, cmp, catalog, inflight, document>>

\* the gate g applied to a request with header h at time t
RunGate(g, h, t) ==
    IF g = "authMiddleware" THEN authMiddleware(h, t) ELSE verifyTokenGate(h, t)

\* a request carrying 'Bearer <token>', for one of the tokens, reaches one of
\* the gates
Present(tokens) ==
    /\ tpc # "start"
    /\ tout.issued.ok
    /\ \E g \in JwtGates, token \in tokens :
         LET out == RunGate(g, Bearer(token), now)
         IN  tout' = [tout EXCEPT !.presented = token,
                                  !.verified = NULL,
                                  !.verifiedAt = now,
                                  !.gate = [name |-> g, out |-> out],
                                  !.expired = @ \/ (/\ token = tout.issued.value
                                                    /\ out.kind = "respond"
                                                    /\ now >= token.claims.exp)]
    /\ tpc' = "gated"
    /\ UNCHANGED <<now, env, pc, req, user, res, obs, tin, db, ares, rng, hashes, cmp, catalog, inflight, document>>

\* the client presents the issued token or a forgery of it
TPresent == Present({tout.issued.value} \cup Forgeries(tout.issued.value))

TTick ==
    /\ now < MaxTime
    /\ now' = now + 1
    /\ UNCHANGED <<env, pc, req, user, res, obs, tin, tout, tpc, db, ares, rng, hashes, cmp, catalog, inflight, document>>

TokenNext == TGenerate \/ TVerify \/ TVerifyForged \/ TVerifyJunk \/ TPresent \/ TTick

TokenSpec == TokenInit /\ [][TokenNext]_vars

-----------------------------------------------------------------------------
(* The password module used on its own: hashes are made, then compared *)

MaxHashes == 2

HashInit == /\ now = 0
            /\ env = [JWT_SECRET |-> "s1", TOKEN_SECRET |-> "s1"]
            /\ PipelineIdle
            /\ TokenIdle
            /\ AccountIdle
            /\ PasswordIdle
            /\ ServerIdle

HashCall(fn, input, result) == [fn |-> fn, input |-> input, result |-> result]

\* hashPassword(c) for any value c
HashPassword ==
    /\ Len(hashes) < MaxHashes
    /\ \E c \in Credentials :
         LET result == hashPassword(c, rng)
         IN  /\ hashes' = Append(hashes, HashCall("hashPassword", c, result))
             /\ rng' = IF result.ok THEN rng + 1 ELSE rng
    /\ UNCHANGED <<now, env, pc, req, user, res, obs, tin, tout, tpc, db, ares, cmp, catalog, inflight, document>>

\* a user document with a new password is saved: validation, then the hook
PreSave ==
    /\ Len(hashes) < MaxHashes
    /\ \E c \in {p \in Passwords : Len(p.chars) >= MIN_PASSWORD_LENGTH} :
         /\ hashes' = Append(hashes, HashCall("preSave", c, preSave(c, rng)))
         /\ rng' = rng + 1
    /\ UNCHANGED <<now, env, pc, req, user, res, obs, tin, tout, tpc, db, ares, cmp, catalog, inflight, document>>

\* the hash strings returned so far
StoredHashes == {hashes[i].result.value : i \in {j \in DOMAIN hashes : hashes[j].result.ok}}

\* comparePassword(plain, hashed) for any value plain, and for hashed a
\* stored hash, a string that is no hash, or no string
ComparePassword ==
    /\ \E plain \in Credentials, hashed \in StoredHashes \cup MalformedHashes \cup NonStrings :
         cmp' = [plain |-> plain, hashed |-> hashed,
                 result |-> comparePassword(plain, hashed)]
    /\ UNCHANGED <<now, env, pc, req, user, res, obs, tin, tout, tpc, db, ares, rng, hashes, catalog, inflight, document>>

HashNext == HashPassword \/ PreSave \/ ComparePassword

HashSpec == HashInit /\ [][HashNext]_vars

-----------------------------------------------------------------------------
(* Accounts change while a token issued earlier is in use *)

\* tokens for the seeded users: { id, role } as the jwtUtils demo signs them,
\* { id } as authController signs them
AccountTokenInputs ==
    [payload : {[id |-> 1, role |-> "admin"], [id |-> 2, role |-> "user"], [id |-> 2]},
     expiresIn : {1, NoTtl}]

AccountInit == /\ now = 0
               /\ env \in Envs
               /\ PipelineIdle
               /\ PasswordIdle
               /\ ServerIdle
               /\ AccountIdle
               /\ tin \in AccountTokenInputs
               /\ tout = NotIssued
               /\ tpc = "start"

\* req.body of the account routes
Bodies == [email : Emails, role : RoleEnum \cup {"viewer"}]

\* PATCH /profile by the user a gate identified, asking for a new email and
\* for the admin role
UpdateProfile ==
    /\ \E i \in UserIds, body \in {b \in Bodies : b.role = "admin"} :
         LET h == updateProfile(db, [id |-> i], body)
         IN  db' = h.db /\ ares' = h.res
    /\ UNCHANGED <<now, env, pc, req, user, res, obs, tin, tout, tpc, rng, hashes, cmp, catalog, inflight, document>>

\* PATCH /users/:id
UpdateUserById ==
    /\ \E id \in ParamIds, body \in Bodies :
         LET h == updateUserById(db, id, body)
         IN  db' = h.db /\ ares' = h.res
    /\ UNCHANGED <<now, env, pc, req, user, res, obs, tin, tout, tpc, rng, hashes, cmp, catalog, inflight, document>>

\* DELETE /users/:id
DeleteUserById ==
    /\ \E id \in ParamIds :
         LET h == deleteUserById(db, id)
         IN  db' = h.db /\ ares' = h.res
    /\ UNCHANGED <<now, env, pc, req, user, res, obs, tin, tout, tpc, rng, hashes, cmp, catalog, inflight, document>>

\* the client presents the token it was issued
TPresentIssued == Present({tout.issued.value})

AccountNext ==
    \/ TGenerate
    \/ TVerify
    \/ TPresentIssued
    \/ UpdateProfile
    \/ UpdateUserById
    \/ DeleteUserById
    \/ TTick

AccountSpec == AccountInit /\ [][AccountNext]_vars

-----------------------------------------------------------------------------
(* Vocabulary of the properties *)

Range(seq) == {seq[i] : i \in DOMAIN seq}

CatalogRoles == {"admin", "editor", "viewer"}

\* the permissions the catalog gives a role
PermSet(role) == Range(permissions[role])

UniversalGrant == "manage:all"

\* the secret the request's gate verifies with
GateSecret == IF req.route.gate = "authMiddleware" THEN JWT_SECRET ELSE TOKEN_SECRET

\* the header is 'Bearer', one space, one non-empty word
WireFormat(h) ==
    /\ h.present
    /\ Len(h.text) = 3
    /\ h.text[1] = Word("Bearer")
    /\ h.text[2] = SP
    /\ h.text[3] # SP

\* the request carried, as the second segment of its header, a token that
\* verifies under the gate's secret now
CarriedVerifiedToken ==
    /\ ~MissingHeader(req.header)
    /\ LET tok == Index1(Split(req.header.text))
       IN  /\ ~NoToken(tok)
           /\ tok.kind = "jwt"
           /\ tok.sig = Hmac(GateSecret, tok.claims)
           /\ (HasProp(tok.claims, "exp") => now < tok.claims.exp)
           /\ (HasProp(tok.claims, "nbf") => tok.claims.nbf <= now)
           /\ user = tok.claims

-----------------------------------------------------------------------------
(* C1..C10 *)

\* C1 (as claimed): behind authMiddleware and rbacMiddleware(R), the handler
\* runs only for a verified token whose role holds 'manage:all' or every
\* permission of R; every other request ends with a 401 or a 403.
C1_NoDefaultAllow ==
    (req.route.gate = "authMiddleware" /\ req.route.rbac /\ pc = "done") =>
        IF obs.handlerRuns > 0
        THEN /\ CarriedVerifiedToken
             /\ RoleKey(user) \in CatalogRoles
             /\ \/ UniversalGrant \in PermSet(RoleKey(user))
                \/ Range(req.route.R) \subseteq PermSet(RoleKey(user))
        ELSE res.status \in {401, 403}

\* C2: for a catalog role without 'manage:all', rbacMiddleware(R) calls next
\* exactly when every member of R is among the role's permissions, and
\* otherwise answers 403 without calling next.
C2_ConjunctiveCheck ==
    (/\ obs.rbacRuns = 1
     /\ ~Falsy(user)
     /\ RoleKey(user) \in CatalogRoles
     /\ UniversalGrant \notin PermSet(RoleKey(user))) =>
        IF Range(req.route.R) \subseteq PermSet(RoleKey(user))
        THEN obs.rbacNext = 1 /\ obs.rbacStatus = 0
        ELSE obs.rbacNext = 0 /\ obs.rbacStatus = 403

\* viewer {read:post} asked for [read:post, delete:post] is answered 403
C2_Witness ==
    /\ obs.rbacRuns = 1
    /\ ~Falsy(user)
    /\ RoleKey(user) = "viewer"
    /\ req.route.R = <<"read:post", "delete:post">>
    /\ obs.rbacStatus = 403

\* C3: a role whose catalog entry holds 'manage:all' passes rbacMiddleware(R)
\* for every non-empty R, also one naming permissions the catalog never lists.
C3_UniversalGrant ==
    (/\ obs.rbacRuns = 1
     /\ ~Falsy(user)
     /\ RoleKey(user) \in CatalogRoles
     /\ UniversalGrant \in PermSet(RoleKey(user))
     /\ req.route.R # <<>>) =>
        obs.rbacNext = 1 /\ obs.rbacStatus = 0

\* admin asked for ['manage_users'], which no catalog entry lists, passes
C3_Witness ==
    /\ obs.rbacRuns = 1
    /\ ~Falsy(user)
    /\ RoleKey(user) = "admin"
    /\ req.route.R = <<"manage_users">>
    /\ \A r \in CatalogRoles : "manage_users" \notin PermSet(r)
    /\ obs.rbacNext = 1

\* C4 (as claimed): a role that is no key of the catalog, whatever its value
\* (missing, 'constructor', '__proto__', ...), is answered 403 and next is
\* never called.
C4_UnknownRoleForbidden ==
    (/\ obs.rbacRuns = 1
     /\ ~Falsy(user)
     /\ RoleKey(user) \notin CatalogRoles) =>
        obs.rbacStatus = 403 /\ obs.rbacNext = 0

\* C5: with no identity attached (req.user undefined or null)
\* rbacMiddleware(R) answers 401, reads no catalog entry and does not call
\* next, for every R including the empty list.
C5_FailsClosedWithoutIdentity ==
    (obs.rbacRuns = 1 /\ Falsy(user)) =>
        /\ obs.rbacStatus = 401
        /\ obs.lookups = 0
        /\ obs.rbacNext = 0
        /\ obs.handlerRuns = 0

\* req.user is null, R is empty, and the answer is 401
C5_Witness ==
    /\ obs.rbacRuns = 1
    /\ user = NULL
    /\ req.route.R = <<>>
    /\ obs.rbacStatus = 401
    /\ pc = "done"

\* C6 (as claimed): whenever either gate does not call next, it answered 401
\* and attached no identity.
C6_AuthFailureIs401 ==
    (obs.authRuns = 1 /\ obs.authNext = 0) =>
        /\ obs.authStatus = 401
        /\ user = UNDEFINED

\* C7: behind a gate, a request without Authorization header is answered 401
\* by the gate and rbacMiddleware never runs for it; rbacMiddleware runs, and
\* reads the catalog, only after the gate attached an identity.
C7_AuthBeforeRbac ==
    req.route.gate \in JwtGates =>
        /\ (obs.authRuns = 1 /\ ~req.header.present) =>
              /\ obs.authStatus = 401
              /\ pc = "done"
              /\ obs.rbacRuns = 0
              /\ obs.lookups = 0
        /\ (pc = "rbac" \/ obs.rbacRuns > 0 \/ obs.lookups > 0) =>
              /\ obs.authRuns = 1
              /\ obs.authNext = 1
              /\ obs.userSets = 1
              /\ ~Falsy(user)

\* no header on /users: 401 from the gate, RBAC never entered
C7_Witness ==
    /\ req.route.gate = "authMiddleware"
    /\ req.route.rbac
    /\ ~req.header.present
    /\ pc = "done"
    /\ obs.authStatus = 401
    /\ obs.rbacRuns = 0

\* C8 (as claimed): a header that is not exactly 'Bearer', one space and a
\* non-empty token is not accepted: the gate answers 401 and does not call
\* next. (The claim adds that no token is verified for such a header; the
\* acceptance stated here is the part a request can observe.)
C8_BearerOnly ==
    (obs.authRuns = 1 /\ ~WireFormat(req.header)) =>
        /\ obs.authStatus = 401
        /\ obs.authNext = 0

\* C9: when the gate calls next it has set req.user exactly once, to the
\* claims of the token the header carried, and that token verifies; when it
\* does not call next req.user stays unset; next is called at most once and
\* req.user is written at most once per request.
C9_AttachesVerifiedClaims ==
    req.route.gate \in JwtGates =>
        /\ obs.authNext <= 1
        /\ obs.userSets <= 1
        /\ obs.authNext = 1 => (obs.userSets = 1 /\ CarriedVerifiedToken)
        /\ obs.authNext = 0 => (obs.userSets = 0 /\ user = UNDEFINED)

\* the admin token, attached as it was signed, with the request at its handler
C9_Witness ==
    /\ req.route.gate \in JwtGates
    /\ req.header = Bearer(AdminToken)
    /\ obs.authNext = 1
    /\ user = AdminToken.claims
    /\ pc = "handler"

\* C10 (as claimed): verifyToken(generateToken(k, t)) before the expiry
\* returns claims equal to k.
C10_RoundTripEqual ==
    (/\ tpc = "verified"
     /\ tout.verifiedAt < tout.issued.value.claims.exp) =>
        tout.verified = tin.payload

\* C10 (amended): for k carrying none of exp, iat, nbf, the round trip before
\* the expiry returns every property of k unchanged, plus iat = the issue
\* time and exp = the issue time + t, and nothing else.
C10_RoundTripExtends ==
    (/\ tpc = "verified"
     /\ (DOMAIN tin.payload) \cap RegisteredClaims = {}
     /\ tout.verifiedAt < tout.issuedAt + tin.expiresIn) =>
        /\ tout.verified # NULL
        /\ DOMAIN tout.verified = (DOMAIN tin.payload) \cup {"iat", "exp"}
        /\ \A p \in DOMAIN tin.payload : tout.verified[p] = tin.payload[p]
        /\ tout.verified.iat = tout.issuedAt
        /\ tout.verified.exp = tout.issuedAt + tin.expiresIn

\* { id: 2, role: 'editor' } with t = 2, verified one second after issue
C10_Witness ==
    /\ tpc = "verified"
    /\ tin.payload = [id |-> 2, role |-> "editor"]
    /\ tin.expiresIn = 2
    /\ tout.verifiedAt = tout.issuedAt + 1
    /\ tout.verified # NULL
    /\ tout.verified.role = "editor"

-----------------------------------------------------------------------------
(* C11..C20 *)

\* the token generateToken returned, and the expiry it embeds
IssuedToken == tout.issued.value
IssuedExp == tout.issued.value.claims.exp

\* the token's nbf, when it carries one, has passed at time t
Active(token, t) == HasProp(token.claims, "nbf") => token.claims.nbf <= t

\* the last use of the token was the issued token itself, unaltered
UsedIssued == tpc \in {"verified", "gated"} /\ tout.presented = IssuedToken

\* the gate of the last use did not let the request through
GateRejected == tout.gate.out.kind = "respond" /\ tout.gate.out.sets = 0

RequestedTtl == IF tin.expiresIn = NoTtl THEN 60 * 60 ELSE tin.expiresIn

\* C12 (as claimed): the token generateToken(payload, ttl) returns embeds
\* exp = issue time + ttl, and exp = issue time + one hour when no ttl is given.
C12_ExpiryIsIssueTimePlusTtl ==
    (tpc # "start" /\ tout.issued.ok) => IssuedExp = tout.issuedAt + RequestedTtl

\* C12 (amended): generateToken returns a token for every object payload
\* without an exp of its own; the token embeds exp = iat + ttl, with ttl the
\* caller's value, or one hour when the caller gave none, and iat the issue
\* time unless the payload carries a non-zero iat of its own, which is kept.
C12_ExpiryIsIatPlusTtl ==
    tpc # "start" =>
        /\ (/\ ~Falsy(tin.payload)
            /\ TypeofObject(tin.payload)
            /\ ~HasProp(tin.payload, "exp")) => tout.issued.ok
        /\ tout.issued.ok =>
              /\ IssuedExp = IssuedToken.claims.iat + RequestedTtl
              /\ (~HasProp(tin.payload, "iat") \/ tin.payload.iat = 0) =>
                    IssuedToken.claims.iat = tout.issuedAt
              /\ (HasProp(tin.payload, "iat") /\ tin.payload.iat # 0) =>
                    IssuedToken.claims.iat = tin.payload.iat

\* no ttl given at time 1: the token expires at 3601
C12_Witness ==
    /\ tpc = "issued"
    /\ tin.expiresIn = NoTtl
    /\ ~HasProp(tin.payload, "iat")
    /\ tout.issued.ok
    /\ tout.issuedAt = 1
    /\ IssuedExp = 3601

\* the token carries the signature the secret gives its claims
SignedWith(token, secret) ==
    /\ token.kind = "jwt"
    /\ secret # ""
    /\ token.sig = Hmac(secret, token.claims)

\* the secret the gate of the last use verifies with
PresentedGateSecret ==
    IF tout.gate.name = "authMiddleware" THEN JWT_SECRET ELSE TOKEN_SECRET

\* C13: a token made from an issued one by altering its signature, rewriting
\* a claim or its expiry under the old signature, or signing with a key that
\* is not the verifier's secret, is never accepted: verifyToken returns null
\* for it, and each gate answers 401 without attaching anything.
C13_TamperDetection ==
    /\ tpc = "forged" =>
          /\ tout.presented # IssuedToken
          /\ ~SignedWith(tout.presented, JWT_SECRET)
          /\ tout.verified = NULL
    /\ (/\ tpc = "gated"
        /\ tout.presented # IssuedToken
        /\ ~SignedWith(tout.presented, PresentedGateSecret)) =>
          /\ GateRejected
          /\ tout.gate.out.status = 401
          /\ tout.gate.out.user = UNDEFINED

\* the issued token with role rewritten to 'admin' under the old signature,
\* presented to authMiddleware before the expiry: 401
C13_Witness ==
    /\ tpc = "gated"
    /\ tout.gate.name = "authMiddleware"
    /\ tin.payload = [id |-> 2, role |-> "editor"]
    /\ tout.presented = RewriteRole(IssuedToken)
    /\ tout.verifiedAt < IssuedExp
    /\ tout.gate.out.status = 401

\* why a token string fails verification under a secret at time t
FailureKind(token, secret, t) ==
    IF token.kind # "jwt" THEN "malformed"
    ELSE IF ~SignedWith(token, secret) THEN "signature"
    ELSE IF ~Active(token, t) THEN "inactive"
    ELSE IF HasProp(token.claims, "exp") /\ t >= token.claims.exp THEN "expired"
    ELSE "none"

ThreeKinds == {"expired", "signature", "malformed"}

\* C14 (as claimed): verifyToken reports an expired token, a token with a bad
\* signature and an unparsable string to its caller as three distinguishable
\* outcomes: what it returned for the token just verified differs from what
\* it returns for a token failing for another of the three reasons.
C14_DistinguishesFailureKinds ==
    (/\ tpc \in {"verified", "forged"}
     /\ FailureKind(tout.presented, JWT_SECRET, tout.verifiedAt) \in ThreeKinds) =>
        \A other \in {IssuedToken} \cup Forgeries(IssuedToken) :
            (/\ FailureKind(other, JWT_SECRET, tout.verifiedAt) \in ThreeKinds
             /\ FailureKind(other, JWT_SECRET, tout.verifiedAt)
                   # FailureKind(tout.presented, JWT_SECRET, tout.verifiedAt)) =>
                verifyToken(other, tout.verifiedAt) # tout.verified

\* the token of the request in flight
RequestToken == Index1(Split(req.header.text))

\* C15 (as claimed): at each gate, the response to a request whose token fails
\* verification (expired, bad signature, unparsable) has the status and the
\* body the gate gives, at the same time, to a request that differs only in
\* the reason its token fails.
C15_NoFailureKindLeak ==
    (/\ obs.authRuns = 1
     /\ obs.verifies = 1
     /\ FailureKind(RequestToken, GateSecret, now) \in ThreeKinds) =>
        \A other \in TokenPool :
            FailureKind(other, GateSecret, now) \in ThreeKinds =>
                LET out == RunGate(req.route.gate, Bearer(other), now)
                IN  /\ out.status = obs.authStatus
                    /\ out.body = res.body

\* the payload names no user: it is no object, or has neither id nor userId
LacksUserId(payload) ==
    \/ Falsy(payload)
    \/ ~TypeofObject(payload)
    \/ (~HasProp(payload, "id") /\ ~HasProp(payload, "userId"))

\* C16 (as claimed): generateToken fails and returns no token whenever the
\* payload lacks a user identifier: null, a non-object, the empty object, an
\* object with other fields only.
C16_IssueRequiresUserId ==
    (tpc # "start" /\ LacksUserId(tin.payload)) => ~tout.issued.ok

\* C17 (as claimed): hashPassword fails, and returns no hash, for the empty
\* string and for every value that is not a string.
C17_HashRejectsInvalidCredential ==
    \A i \in DOMAIN hashes :
        (/\ hashes[i].fn = "hashPassword"
         /\ (~IsString(hashes[i].input) \/ hashes[i].input = Str(<<>>))) =>
            ~hashes[i].result.ok

\* the i-th hashing call returned a hash of the string c
HashOf(i, c) ==
    /\ i \in DOMAIN hashes
    /\ IsString(c)
    /\ hashes[i].input = c
    /\ hashes[i].result.ok

\* C18: two hashing calls on the same credential return different hashes,
\* and comparePassword of the credential with either hash is true.
C18_SaltedHashing ==
    /\ \A i, j \in DOMAIN hashes :
          (i < j /\ HashOf(i, hashes[i].input) /\ HashOf(j, hashes[i].input)) =>
              hashes[i].result.value # hashes[j].result.value
    /\ \A i \in DOMAIN hashes :
          (HashOf(i, cmp.plain) /\ cmp.hashed = hashes[i].result.value) =>
              cmp.result = Success(TRUE)

\* 'a' hashed twice by hashPassword: two hashes, the second compares true
C18_Witness ==
    /\ Len(hashes) = 2
    /\ hashes[1].fn = "hashPassword"
    /\ hashes[2].fn = "hashPassword"
    /\ HashOf(1, Str(<<"a">>))
    /\ HashOf(2, Str(<<"a">>))
    /\ hashes[1].result.value # hashes[2].result.value
    /\ cmp.plain = Str(<<"a">>)
    /\ cmp.hashed = hashes[2].result.value
    /\ cmp.result = Success(TRUE)

\* C19 (as claimed): comparePassword(c1, h) with h a hash of c2 # c1 returns
\* false; for a string credential it throws only when the hash is malformed
\* (no string, or no bcrypt hash), never because of a mismatch.
C19_MismatchIsFalse ==
    IsString(cmp.plain) =>
        /\ \A i \in DOMAIN hashes :
              (/\ HashOf(i, hashes[i].input)
               /\ hashes[i].input # cmp.plain
               /\ cmp.hashed = hashes[i].result.value) =>
                  cmp.result = Success(FALSE)
        /\ (cmp # NoCompare /\ ~cmp.result.ok) => cmp.hashed \notin StoredHashes

\* C20: whether the issued token is accepted is decided by the token, the
\* verifier's secret and the time alone, whatever updateProfile,
\* updateUserById and deleteUserById did to the users collection in between:
\* verifyToken returns its claims exactly before its expiry, a gate lets it
\* through, with its claims attached, exactly when it carries the gate's
\* signature and the time is before its expiry.
C20_StatelessValidity ==
    /\ (tpc = "verified" /\ tout.presented = IssuedToken) =>
          IF tout.verifiedAt < IssuedExp
          THEN tout.verified = IssuedToken.claims
          ELSE tout.verified = NULL
    /\ (tpc = "gated" /\ tout.presented = IssuedToken) =>
          IF /\ SignedWith(IssuedToken, PresentedGateSecret)
             /\ tout.verifiedAt < IssuedExp
          THEN /\ tout.gate.out.kind = "next"
               /\ tout.gate.out.user = IssuedToken.claims
          ELSE GateRejected

\* user 2 is deleted and its hour-long token still passes authMiddleware
C20_Witness ==
    /\ tpc = "gated"
    /\ tout.gate.name = "authMiddleware"
    /\ tout.presented = IssuedToken
    /\ IssuedToken.claims.id = 2
    /\ db[2] = NULL
    /\ tout.issuedAt < tout.verifiedAt
    /\ tout.gate.out.kind = "next"
    /\ tout.gate.out.user = IssuedToken.claims

-----------------------------------------------------------------------------
(* postRoutes (src/unnamed/part_001): GET /api/posts and GET /api/posts/:id *)
(* mount rbacMiddleware(['read:post']) with no authentication gate         *)

PublicPostRoute == Route("none", TRUE, <<"read:post">>)

\* C25: GET /api/posts and GET /api/posts/:id are public: a request that
\* carries no credentials, hence has no identity attached, reaches the route
\* handler and is answered 200.
C25_PostsArePublic ==
    (pc = "done" /\ req.route = PublicPostRoute /\ Falsy(user))
        => (obs.handlerRuns = 1 /\ res.status = 200)

-----------------------------------------------------------------------------
(* jwtUtils.verifyToken: null for every input that does not verify *)

\* the value handed to verifyToken is a token correctly signed with JWT_SECRET
\* and not expired at the time of the call
SignedAndUnexpired(v, t) ==
    /\ TypeofString(v)
    /\ v.kind = "jwt"
    /\ v.sig = Hmac(JWT_SECRET, v.claims)
    /\ ~(HasProp(v.claims, "exp") /\ t >= v.claims.exp)

\* C27: verifyToken never throws: it returns null for a value that is not a
\* string, for the empty string, and for a token that is unparsable, expired
\* or wrongly signed; what it returns otherwise is the payload of the token,
\* and only for a token signed with JWT_SECRET and not expired.
C27_VerifyTokenNeverThrows ==
    (tpc \in {"verified", "forged", "junk"})
        => /\ ~SignedAndUnexpired(tout.presented, tout.verifiedAt)
                => tout.verified = NULL
           /\ tout.verified # NULL => tout.verified = tout.presented.claims

\* verifyToken was handed a number and returned null
C27_Witness ==
    /\ tpc = "junk"
    /\ tout.presented = [kind |-> "number"]
    /\ tout.verified = NULL

-----------------------------------------------------------------------------
(* rbacMiddleware(R) serving one request after the other *)

MaxEvals == 2

\* what an authentication step can have left in req.user
RbacIdentities ==
    {[id |-> i, role |-> r] :
        i \in {1, 2}, r \in {"admin", "editor", "viewer", "user", "constructor"}}
    \cup {[id |-> 1], NULL, UNDEFINED}

\* the lists the routes hand to rbacMiddleware
RbacLists == {<<>>, <<"read:post">>, <<"read:post", "delete:post">>, <<"manage_users">>}

\* one evaluation of the middleware: its closure variable, req.user before
\* and after, and what it did
Evaluation(R, u, out) == [R |-> R, user |-> u, userAfter |-> u, out |-> out]

RbacInit == /\ now = 0
            /\ env \in {e \in Envs : e.TOKEN_SECRET = e.JWT_SECRET}
            /\ PipelineIdle
            /\ TokenIdle
            /\ AccountIdle
            /\ PasswordIdle
            /\ ServerIdle

\* the middleware rbacMiddleware(R) runs for a request whose req.user is u;
\* it reads req.user and permissions and writes to res alone
RbacServe ==
    /\ Len(inflight) < MaxEvals
    /\ \E R \in RbacLists, u \in RbacIdentities :
         inflight' = Append(inflight, Evaluation(R, u, rbacMiddleware(R, u)))
    /\ UNCHANGED <<now, env, pc, req, user, res, obs, tin, tout, tpc, db, ares,
                   rng, hashes, cmp, catalog, document>>

RbacNextStep == RbacServe

RbacSpec == RbacInit /\ [][RbacNextStep]_vars

\* two identities carry the same role claim (or are both absent)
SameRole(u, v) ==
    IF Falsy(u) \/ Falsy(v) THEN Falsy(u) /\ Falsy(v)
    ELSE /\ HasProp(u, "role") <=> HasProp(v, "role")
         /\ HasProp(u, "role") => u.role = v.role

\* C21: the decision of rbacMiddleware(R) depends on the role in req.user and
\* on R alone: two evaluations with the same role and the same R, of the same
\* request again or of another caller, decide the same; an evaluation leaves
\* req.user, R and the permission catalog as they were.
C21_DecisionDependsOnRoleAndR ==
    /\ catalog = permissions
    /\ \A i \in DOMAIN inflight : inflight[i].userAfter = inflight[i].user
    /\ \A i, j \in DOMAIN inflight :
         (inflight[i].R = inflight[j].R /\ SameRole(inflight[i].user, inflight[j].user))
            => inflight[i].out = inflight[j].out

\* two callers with different ids and the same role were decided against the
\* same list, and so was one of them a second time
C21_Witness ==
    /\ Len(inflight) = 2
    /\ inflight[1].R = <<"read:post", "delete:post">>
    /\ inflight[2].R = inflight[1].R
    /\ inflight[1].user = [id |-> 1, role |-> "editor"]
    /\ inflight[2].user = [id |-> 2, role |-> "editor"]
    /\ inflight[1].out.status = 403
    /\ inflight[2].out.status = 403

-----------------------------------------------------------------------------
(* Requests served at once: Express hands every request its own req and    *)
(* res; the middlewares share the permission catalog and the secret        *)

MaxInflight == 2

ConcHeaders ==
    {NoHeader, Bearer(AdminToken), Bearer(ViewerToken), Bearer(ShortToken)}

ConcLists == {<<"read:post">>, <<"manage_users">>}

\* a request on arrival: nothing attached, nothing sent
Arrived(header, R) ==
    [header |-> header, R |-> R, pc |-> "auth", user |-> UNDEFINED,
     res |-> NoResponse, gateAt |-> 0, secret |-> ""]

\* a module-level variable holding the request last received, in place of
\* the req argument
ReqOfLatest(s) == Len(inflight)

\* the req object the middleware of request s is called with: its own
ReqOf(s) == s

ConcInit == /\ now = 0
            /\ env \in {e \in Envs : e.TOKEN_SECRET = e.JWT_SECRET}
            /\ PipelineIdle
            /\ TokenIdle
            /\ AccountIdle
            /\ PasswordIdle
            /\ ServerIdle

\* a request arrives while others are being served
ConcArrive ==
    /\ Len(inflight) < MaxInflight
    /\ \E h \in ConcHeaders, R \in ConcLists :
         inflight' = Append(inflight, Arrived(h, R))
    /\ UNCHANGED <<now, env, pc, req, user, res, obs, tin, tout, tpc, db, ares,
                   rng, hashes, cmp, catalog, document>>

\* authMiddleware runs for request s
ConcGate ==
    /\ \E s \in DOMAIN inflight :
         /\ inflight[s].pc = "auth"
         /\ LET out == authMiddleware(inflight[s].header, now)
                t == ReqOf(s)
            IN  inflight' =
                  [i \in DOMAIN inflight |->
                     LET r0 == inflight[i]
                         r1 == IF i = t /\ out.sets = 1
                               THEN [r0 EXCEPT !.user = out.user] ELSE r0
                     IN  IF i # s THEN r1
                         ELSE [r1 EXCEPT
                                 !.pc = IF out.kind = "next" THEN "rbac" ELSE "done",
                                 !.res = IF out.kind = "respond"
                                         THEN [status |-> out.status, body |-> out.body]
                                         ELSE @,
                                 !.gateAt = now,
                                 !.secret = JWT_SECRET]]
    /\ UNCHANGED <<now, env, pc, req, user, res, obs, tin, tout, tpc, db, ares,
                   rng, hashes, cmp, catalog, document>>

\* rbacMiddleware(R) runs for request s
ConcRbac ==
    /\ \E s \in DOMAIN inflight :
         /\ inflight[s].pc = "rbac"
         /\ LET out == rbacMiddleware(inflight[s].R, inflight[ReqOf(s)].user)
            IN  inflight' =
                  [inflight EXCEPT
                     ![s].pc = IF out.kind = "next" THEN "handler" ELSE "done",
                     ![s].res = IF out.kind = "respond"
                                THEN [status |-> out.status, body |-> out.body]
                                ELSE IF out.kind = "throw" THEN ErrorHandler ELSE @]
    /\ UNCHANGED <<now, env, pc, req, user, res, obs, tin, tout, tpc, db, ares,
                   rng, hashes, cmp, catalog, document>>

\* the route handler answers request s
ConcHandler ==
    /\ \E s \in DOMAIN inflight :
         /\ inflight[s].pc = "handler"
         /\ inflight' = [inflight EXCEPT ![s].pc = "done",
                                         ![s].res = [status |-> 200, body |-> "handled"]]
    /\ UNCHANGED <<now, env, pc, req, user, res, obs, tin, tout, tpc, db, ares,
                   rng, hashes, cmp, catalog, document>>

\* time passes while requests are being served
ConcTick ==
    /\ now < MaxTime
    /\ now' = now + 1
    /\ UNCHANGED <<env, pc, req, user, res, obs, tin, tout, tpc, db, ares,
                   rng, hashes, cmp, catalog, inflight, document>>

ConcNext == ConcArrive \/ ConcGate \/ ConcRbac \/ ConcHandler \/ ConcTick

ConcSpec == ConcInit /\ [][ConcNext]_vars

\* the response a request gets when it is the only one served, its gate
\* running at time t
ServedAlone(header, R, t) ==
    LET g == authMiddleware(header, t)
    IN  IF g.kind # "next" THEN [status |-> g.status, body |-> g.body]
        ELSE LET out == rbacMiddleware(R, g.user)
             IN  IF out.kind = "respond" THEN [status |-> out.status, body |-> out.body]
                 ELSE IF out.kind = "throw" THEN ErrorHandler
                 ELSE [status |-> 200, body |-> "handled"]

\* C22: however the steps of requests served at once interleave, the identity
\* attached to a request is the claims of the token that request carries, and
\* the request is decided as it would be alone; the permission catalog and
\* the secret the gate verifies with are the same in every state.
C22_RequestsAreIsolated ==
    /\ catalog = permissions
    /\ \A s \in DOMAIN inflight :
         LET r == inflight[s]
         IN  /\ r.pc # "auth" => r.secret = JWT_SECRET
             /\ r.user # UNDEFINED =>
                    /\ r.pc # "auth"
                    /\ r.header = Bearer(Jwt(r.user, Hmac(JWT_SECRET, r.user)))
             /\ r.pc \in {"rbac", "handler"} => r.user # UNDEFINED
             /\ r.pc = "done" => r.res = ServedAlone(r.header, r.R, r.gateAt)

\* an admin and a viewer are served at once: the viewer's gate ran after
\* the admin's and the viewer was refused before the admin's permissions
\* were checked; the admin's request still carries the admin's claims
C22_Witness ==
    /\ Len(inflight) = 2
    /\ inflight[1].header = Bearer(AdminToken)
    /\ inflight[2].header = Bearer(ViewerToken)
    /\ inflight[1].R = <<"manage_users">>
    /\ inflight[2].R = <<"manage_users">>
    /\ inflight[1].pc = "rbac"
    /\ inflight[1].gateAt = 0
    /\ inflight[1].user = AdminToken.claims
    /\ inflight[2].pc = "done"
    /\ inflight[2].gateAt = 1
    /\ inflight[2].res.status = 403

-----------------------------------------------------------------------------
(* authController and authRoutes: login, then the routes behind the gate   *)

\* JWT_EXPIRES_IN=1h, in seconds
JWT_EXPIRES_IN == 3600

\* a password the schema accepts: MIN_PASSWORD_LENGTH times one character
Pw(c) == Str([i \in 1..MIN_PASSWORD_LENGTH |-> c])

\* a user document with its password field (select: false); isActive takes
\* its default
Account(email, role, password) ==
    [email |-> email, role |-> role, password |-> password, isActive |-> TRUE]

\* the document with isActive set to false
Deactivated(account) == [account EXCEPT !.isActive = FALSE]

\* the seeded users, each saved with a password of its own
SeedPassword(i) == IF i = 1 THEN Pw("p") ELSE Pw("q")
SeedAccounts ==
    [i \in UserIds |->
        Account(SeedUsers[i].email, SeedUsers[i].role,
                preSave(SeedPassword(i), i).value)]

\* User.findOne({ email }): the id of the document, 0 when there is none
findOne(d, email) ==
    IF \E i \in DOMAIN d : d[i] # NULL /\ d[i].email = email
    THEN CHOOSE i \in DOMAIN d : d[i] # NULL /\ d[i].email = email
    ELSE 0

\* authController's generateToken(id) at time t
authController_generateToken(id, t) == jwt_sign([id |-> id], JWT_SECRET, JWT_EXPIRES_IN, t)

LoginResponse(status, message, token) ==
    [status |-> status, body |-> message, token |-> token]

\* login answering an unknown email with a response of its own
loginRevealsUnknownEmail(d, body, t) ==
    LET id == findOne(d, body.email)
    IN  IF id = 0 THEN LoginResponse(404, "User not found", NULL)
        ELSE IF ~bcrypt_compare(body.password, d[id].password)
        THEN LoginResponse(401, "Invalid credentials", NULL)
        ELSE LET token == authController_generateToken(id, t)
             IN  IF ~token.ok THEN LoginResponse(500, "Server error during login", NULL)
                 ELSE LoginResponse(200, "Logged in successfully", token.value)

\* exports.login at time t, for a body whose email and password are strings
login(d, body, t) ==
    LET id == findOne(d, body.email)
    IN  IF id = 0 THEN LoginResponse(401, "Invalid credentials", NULL)
        ELSE IF ~bcrypt_compare(body.password, d[id].password)
        THEN LoginResponse(401, "Invalid credentials", NULL)
        ELSE LET token == authController_generateToken(id, t)
             IN  IF ~token.ok THEN LoginResponse(500, "Server error during login", NULL)
                 ELSE LoginResponse(200, "Logged in successfully", token.value)

\* exports.getProfile
getProfile(d, reqUser) ==
    IF findById(d, IF HasProp(reqUser, "id") THEN reqUser.id ELSE 0) = NULL
    THEN Handled(d, 404, "User not found")
    ELSE Handled(d, 200, "Profile fetched successfully")

\* exports.getAllUsers
getAllUsers(d) == Handled(d, 200, "Users fetched successfully")

\* exports.getUserById
getUserById(d, id) ==
    IF findById(d, id) = NULL THEN Handled(d, 404, "User not found")
    ELSE Handled(d, 200, "User fetched successfully")

\* the routes of authRoutes behind router.use(<gate>): the controller, and
\* whether rbacMiddleware(['manage_users']) stands before it
ProfileRoutes == {"getProfile", "updateProfile"}
UsersRoutes == {"getAllUsers", "getUserById", "updateUserById", "deleteUserById"}

AuthRoute(gate, name) ==
    [gate |-> gate, rbac |-> name \in UsersRoutes,
     R |-> IF name \in UsersRoutes THEN <<"manage_users">> ELSE <<>>, name |-> name]

\* the bodies of POST /login: strings that passed validateUserLogin
LoginEmails == Emails \cup {"c@x.io"}
LoginBodies == [email : LoginEmails, password : {Pw("p"), Pw("q")}]

\* the bodies of the PATCH routes
PatchBodies == [email : LoginEmails, role : {"admin", "user"}]
NoBody == [email |-> "", role |-> ""]

\* a request to a route behind the gate: the route, the header, req.params.id
\* and req.body
AuthRequest(route, header, id, body) ==
    [route |-> route, header |-> header, user0 |-> UNDEFINED,
     params |-> [id |-> id], body |-> body]

AuthRequests(tokens) ==
    UNION {
      {AuthRequest(AuthRoute(g, "getProfile"), Bearer(tok), 0, NoBody),
       AuthRequest(AuthRoute(g, "getAllUsers"), Bearer(tok), 0, NoBody)}
      \cup {AuthRequest(AuthRoute(g, "updateProfile"), Bearer(tok), 0, b) : b \in PatchBodies}
      \cup {AuthRequest(AuthRoute(g, n), Bearer(tok), id, NoBody) :
               n \in {"getUserById", "deleteUserById"}, id \in ParamIds}
      \cup {AuthRequest(AuthRoute(g, "updateUserById"), Bearer(tok), id, b) :
               id \in ParamIds, b \in {c \in PatchBodies : c.email = "c@x.io"}}
      : g \in JwtGates, tok \in tokens}

\* tokens that carry the role, as jwtUtils.generateToken({ id, role }) signs
\* them for the seeded users
RoleTokens ==
    {IssuedAt0([id |-> i, role |-> SeedUsers[i].role], "s1", TOKEN_EXPIRATION) : i \in UserIds}

\* no login has been answered
NoLogin == [status |-> 0, body |-> "", token |-> NULL, input |-> NULL]

AuthInit == /\ now = 0
            /\ env \in Envs
            /\ PipelineIdle
            /\ TokenIdle
            /\ PasswordIdle
            /\ ServerIdle
            /\ db \in {SeedAccounts, [SeedAccounts EXCEPT ![2] = Deactivated(@)]}
            /\ ares = NoLogin

\* POST /login
ALogin ==
    /\ pc = "idle"
    /\ \E b \in LoginBodies :
         LET r == login(db, b, now)
         IN  ares' = [status |-> r.status, body |-> r.body, token |-> r.token, input |-> b]
    /\ UNCHANGED <<now, env, pc, req, user, res, obs, tin, tout, tpc, db,
                   rng, hashes, cmp, catalog, inflight, document>>

\* a client sends a request to a route behind the gate, with the token the
\* last login returned or with a token that carries a role
ARequest ==
    /\ pc = "idle"
    /\ \E r \in AuthRequests(RoleTokens \cup (IF ares.status = 200 THEN {ares.token} ELSE {})) :
         req' = r
    /\ user' = UNDEFINED
    /\ pc' = "auth"
    /\ res' = NoResponse
    /\ obs' = NoObs
    /\ UNCHANGED <<now, env, tin, tout, tpc, db, ares, rng, hashes, cmp, catalog, inflight, document>>

\* the controller of the route
Controller(r, u, d) ==
    CASE r.route.name = "getProfile" -> getProfile(d, u)
      [] r.route.name = "updateProfile" -> updateProfile(d, u, r.body)
      [] r.route.name = "getAllUsers" -> getAllUsers(d)
      [] r.route.name = "getUserById" -> getUserById(d, r.params.id)
      [] r.route.name = "updateUserById" -> updateUserById(d, r.params.id, r.body)
      [] r.route.name = "deleteUserById" -> deleteUserById(d, r.params.id)

RunController ==
    /\ pc = "handler"
    /\ LET h == Controller(req, user, db)
       IN  /\ db' = h.db
           /\ res' = h.res
    /\ obs' = [obs EXCEPT !.handlerRuns = @ + 1, !.sent = @ + 1]
    /\ pc' = "done"
    /\ UNCHANGED <<now, env, req, user, tin, tout, tpc, ares, rng, hashes, cmp, catalog, inflight, document>>

AuthNext ==
    \/ ALogin
    \/ ARequest
    \/ RunAuthMiddleware
    \/ RunVerifyToken
    \/ RunRbac
    \/ RunController
    \/ EndRequest

AuthSpec == AuthInit /\ [][AuthNext]_vars

\* the request in flight presents the token the last login returned
PresentsLoginToken == ares.status = 200 /\ req.header = Bearer(ares.token)

\* C23: on the four /users routes, a request presenting the unexpired token
\* login returned for an account reaches the controller if and only if the
\* role of that account is 'admin'.
C23_AdminOnlyUserManagement ==
    (/\ pc = "done"
     /\ req.route.name \in UsersRoutes
     /\ PresentsLoginToken
     /\ db[ares.token.claims.id] # NULL)
        => (obs.handlerRuns = 1 <=> db[ares.token.claims.id].role = "admin")

\* the request in flight is an admin's and names the admin's own account
AdminSelfRequest ==
    /\ ~Falsy(user)
    /\ HasProp(user, "role") /\ user.role = "admin"
    /\ HasProp(user, "id") /\ user.id = req.params.id
    /\ db[user.id] # NULL

\* C24: an admin cannot delete their own account through DELETE /users/:id:
\* when the :id of an authenticated admin request is the id in its own token,
\* the controller step leaves the stored users as they were.
C24_AdminCannotDeleteSelf ==
    [][(pc = "handler" /\ req.route.name = "deleteUserById" /\ AdminSelfRequest)
          => db' = db]_vars

\* C26: a user cannot change their own role: whatever the body of PATCH
\* /profile, also one that carries a role, updateProfile leaves the stored
\* role of every account as it was, creates and deletes none, and changes no
\* account other than the one the id of the token names.
C26_ProfileUpdateKeepsRole ==
    [][(pc = "handler" /\ req.route.name = "updateProfile")
          => \A i \in UserIds :
                /\ db'[i] = NULL <=> db[i] = NULL
                /\ db[i] # NULL => db'[i].role = db[i].role
                /\ db'[i] # db[i] => (HasProp(user, "id") /\ user.id = i)]_vars

\* a user asked for the admin role and a new email on PATCH /profile: the
\* email was stored and the role is still 'user'
C26_Witness ==
    /\ pc = "done"
    /\ req.route.name = "updateProfile"
    /\ req.body = [email |-> "c@x.io", role |-> "admin"]
    /\ res = [status |-> 200, body |-> "Profile updated successfully"]
    /\ db[user.id].email = "c@x.io"
    /\ db[user.id].role = "user"

\* the plain password is the one the hash was made of
PasswordMatches(plain, hash) == hash.digest = Digest(hash.cost, hash.salt, plain.chars)

\* an account with the email exists and the password matches its stored hash
ValidCredentials(d, body) ==
    \E i \in UserIds :
        d[i] # NULL /\ d[i].email = body.email /\ PasswordMatches(body.password, d[i].password)

-----------------------------------------------------------------------------
(* exports.register: calls served at once suspend at await User.findOne    *)
(* and at await newUser.save()                                             *)

\* ids MongoDB can give to documents
RegIds == 1..(MaxInflight + 1)

\* the collection when the first call arrives: the admin's account alone
RegSeed == [i \in RegIds |-> IF i = 1 THEN SeedAccounts[1] ELSE NULL]

\* req.body of POST /register: emails in their stored form (lower case,
\* trimmed), a password the schema accepts, a role of the enum
RegisterBodies ==
    [email : {"a@x.io", "c@x.io", "d@x.io"}, password : {Pw("p")}, role : {"user", "admin"}]

\* a collection without the unique index on email
DuplicateKeyNever(d, email) == FALSE

\* the unique index on email refuses a second document with the email
DuplicateKey(d, email) == \E i \in DOMAIN d : d[i] # NULL /\ d[i].email = email

\* the _id of a new document
NewId(d) == CHOOSE i \in DOMAIN d : d[i] = NULL /\ \A j \in DOMAIN d : j < i => d[j] # NULL

\* newUser.save(), the random generator having made n draws: the pre-save
\* hook hashes the password, then the insert is checked against the index
save(d, body, n) ==
    IF DuplicateKey(d, body.email) THEN [db |-> d, id |-> 0, rejected |-> TRUE]
    ELSE LET id == NewId(d)
         IN  [db |-> [d EXCEPT ![id] = Account(body.email, body.role,
                                               preSave(body.password, n).value)],
              id |-> id, rejected |-> FALSE]

\* a register call on arrival; existed tells whether the email had an account
\* when the call came in
RegisterCall(body, existed) ==
    [body |-> body, pc |-> "findOne", existed |-> existed, found |-> FALSE,
     created |-> 0, res |-> LoginResponse(0, "", NULL)]

RegisterInit == /\ now = 0
                /\ env \in {e \in Envs : e.TOKEN_SECRET = e.JWT_SECRET}
                /\ PipelineIdle
                /\ TokenIdle
                /\ PasswordIdle
                /\ ServerIdle
                /\ db = RegSeed
                /\ ares = NoLogin

\* POST /register arrives
RegArrive ==
    /\ Len(inflight) < MaxInflight
    /\ \E b \in RegisterBodies :
         inflight' = Append(inflight, RegisterCall(b, findOne(db, b.email) # 0))
    /\ UNCHANGED <<now, env, pc, req, user, res, obs, tin, tout, tpc, db, ares,
                   rng, hashes, cmp, catalog, document>>

\* const existingUser = await User.findOne({ email }); if (existingUser) ...
RegFindOne ==
    /\ \E s \in DOMAIN inflight :
         /\ inflight[s].pc = "findOne"
         /\ IF findOne(db, inflight[s].body.email) # 0
            THEN inflight' =
                   [inflight EXCEPT
                      ![s].pc = "done",
                      ![s].found = TRUE,
                      ![s].res = LoginResponse(400, "User with this email already exists", NULL)]
            ELSE inflight' = [inflight EXCEPT ![s].pc = "save"]
    /\ UNCHANGED <<now, env, pc, req, user, res, obs, tin, tout, tpc, db, ares,
                   rng, hashes, cmp, catalog, document>>

\* await newUser.save(); generateToken(newUser._id); the 201, or the catch
RegSave ==
    /\ \E s \in DOMAIN inflight :
         /\ inflight[s].pc = "save"
         /\ LET q == save(db, inflight[s].body, rng)
                token == authController_generateToken(q.id, now)
            IN  /\ db' = q.db
                /\ inflight' =
                     [inflight EXCEPT
                        ![s].pc = "done",
                        ![s].created = q.id,
                        ![s].res = IF q.rejected \/ ~token.ok
                                   THEN LoginResponse(500, "Server error during registration", NULL)
                                   ELSE LoginResponse(201, "User registered successfully",
                                                      token.value)]
    /\ rng' = rng + 1
    /\ UNCHANGED <<now, env, pc, req, user, res, obs, tin, tout, tpc, ares,
                   hashes, cmp, catalog, document>>

RegisterNext == RegArrive \/ RegFindOne \/ RegSave

RegisterSpec == RegisterInit /\ [][RegisterNext]_vars

\* the accounts stored
Stored(d) == {i \in DOMAIN d : d[i] # NULL}

\* C29: however register calls interleave (findOne, a suspension, save), no
\* two stored accounts have the same email; a register call for an email that
\* had an account when the call came in creates no account, returns no token
\* and answers 400 'User with this email already exists'.
C29_EmailUniqueUnderRace ==
    /\ \A i, j \in Stored(db) : db[i].email = db[j].email => i = j
    /\ Cardinality(Stored(db)) =
          1 + Cardinality({s \in DOMAIN inflight : inflight[s].created # 0})
    /\ \A s \in DOMAIN inflight :
         (inflight[s].existed /\ inflight[s].pc = "done")
            => /\ inflight[s].created = 0
               /\ inflight[s].res =
                     LoginResponse(400, "User with this email already exists", NULL)

\* two calls for one new email both passed findOne before either saved: one
\* account was created, the other call was refused by the index
C29_Witness ==
    /\ Len(inflight) = 2
    /\ inflight[1].body.email = "c@x.io"
    /\ inflight[2].body.email = "c@x.io"
    /\ inflight[1].pc = "done" /\ ~inflight[1].found
    /\ inflight[2].pc = "done" /\ ~inflight[2].found
    /\ inflight[1].res.status = 500
    /\ inflight[2].res.status = 201
    /\ Cardinality(Stored(db)) = 2

-----------------------------------------------------------------------------
(* userModel: a document is created, its password assigned, and saved      *)

MaxSaves == 3

\* plain passwords the schema accepts
DocPasswords == {Pw("p"), Pw("q"), Pw("r")}

DocInit == /\ now = 0
           /\ env \in {e \in Envs : e.TOKEN_SECRET = e.JWT_SECRET}
           /\ PipelineIdle
           /\ TokenIdle
           /\ AccountIdle
           /\ PasswordIdle
           /\ ServerIdle

\* new User({ ..., password }), or user.password = <plain>: the password path
\* is modified
DocAssignPassword ==
    /\ \E p \in DocPasswords :
         document' = [document EXCEPT !.password = p, !.modified = TRUE, !.plain = p]
    /\ UNCHANGED <<now, env, pc, req, user, res, obs, tin, tout, tpc, db, ares,
                   rng, hashes, cmp, catalog, inflight>>

\* user.save(): the pre-save hook, then the write; afterwards no path is
\* modified (a save on a path other than the password included)
DocSave ==
    /\ document.password # NULL
    /\ document.saves < MaxSaves
    /\ LET password == preSaveHook(document.password, document.modified, rng)
       IN  document' =
             [document EXCEPT
                !.password = password,
                !.stored = password,
                !.modified = FALSE,
                !.savedPlain = document.plain,
                !.lastHash = IF document.modified THEN password ELSE @,
                !.saves = @ + 1]
    /\ rng' = rng + 1
    /\ UNCHANGED <<now, env, pc, req, user, res, obs, tin, tout, tpc, db, ares,
                   hashes, cmp, catalog, inflight>>

\* user.comparePassword(candidatePassword) on the saved document
DocCompare ==
    /\ document.stored # NULL
    /\ ~document.modified
    /\ \E candidate \in DocPasswords :
         cmp' = [plain |-> candidate, hashed |-> document.password,
                 result |-> Success(userComparePassword(candidate, document.password))]
    /\ UNCHANGED <<now, env, pc, req, user, res, obs, tin, tout, tpc, db, ares,
                   rng, hashes, catalog, inflight, document>>

DocNext == DocAssignPassword \/ DocSave \/ DocCompare

DocSpec == DocInit /\ [][DocNext]_vars

\* the hash was made of the plain text, and of nothing else
HashOfPlain(hash, plain) ==
    /\ HasProp(hash, "digest")
    /\ hash.digest = Digest(hash.cost, hash.salt, plain.chars)

\* C30: after any sequence of saves the stored password is a hash, never the
\* plain text, and it is the hash of the last plain password that was
\* assigned and saved; a save with the password unmodified leaves the stored
\* hash as the last hashing save made it, and comparePassword with that
\* plain password answers true, with another false.
C30_StoredPasswordHashedOnce ==
    /\ document.stored # NULL =>
          /\ document.stored \notin DocPasswords
          /\ HashOfPlain(document.stored, document.savedPlain)
          /\ document.stored = document.lastHash
          /\ ~document.modified =>
                (document.savedPlain = document.plain /\ document.password = document.stored)
    /\ (cmp # NoCompare /\ cmp.hashed = document.stored) =>
          cmp.result = Success(cmp.plain = document.savedPlain)

\* a password was saved, the document saved again with the password
\* unmodified, and comparePassword with the original answered true
C30_Witness ==
    /\ document.saves = 2
    /\ document.lastHash.salt = 0
    /\ document.stored = document.lastHash
    /\ cmp.plain = document.savedPlain
    /\ cmp.hashed = document.stored
    /\ cmp.result = Success(TRUE)

-----------------------------------------------------------------------------
(* C31..C37 *)

\* C33 (as claimed): rbacMiddleware([]) calls next for every request whose
\* identity carries a role that is a key of the catalog, answers 403 for a
\* role that is no key of the catalog, and 401 when no identity is attached.
C33_EmptyRequiredList ==
    (obs.rbacRuns = 1 /\ req.route.rbac /\ req.route.R = <<>>) =>
        IF Falsy(user) THEN obs.rbacStatus = 401 /\ obs.rbacNext = 0
        ELSE IF RoleKey(user) \in CatalogRoles THEN obs.rbacNext = 1
        ELSE obs.rbacStatus = 403 /\ obs.rbacNext = 0

\* the default of the role field of the user schema
DefaultRole == "user"

\* the role values a stored account can hold
StorableRoles == RoleEnum \cup {DefaultRole}

\* C35 (as claimed): every role the user model allows, its enum and its
\* default, is a key of the permission catalog, and an identity carrying it
\* is let through by rbacMiddleware(R) for at least one non-empty R.
C35_StorableRolesInCatalog ==
    \A r \in StorableRoles :
        /\ r \in DOMAIN catalog
        /\ \E R \in RbacLists :
              R # <<>> /\ rbacMiddleware(R, [id |-> 1, role |-> r]).kind = "next"

\* C37 (as claimed): for an account whose isActive is false, login with the
\* email and the password of the account returns no token.
C37_DeactivatedCannotLogin ==
    [][ares' # ares
          => \A i \in UserIds :
                (/\ db[i] # NULL
                 /\ db[i].email = ares'.input.email
                 /\ ~db[i].isActive)
                    => ares'.token = NULL]_vars

\* C36 (as claimed): no account created by a register call, which needs no
\* token, has the role 'admin': a created account holds the default role.
C36_NoSelfGrantedPrivilege ==
    \A s \in DOMAIN inflight :
        inflight[s].created # 0 =>
            /\ db[inflight[s].created].role # "admin"
            /\ db[inflight[s].created].role = DefaultRole

\* C34 (as claimed): the token login returned, presented as 'Bearer <token>',
\* passes the gate of the router, whichever of the two gates it is and
\* whatever the secrets of the environment are; the handler runs and sees
\* req.user.id equal to the id the token was issued for.
C34_FreshTokenAuthenticates ==
    (obs.authRuns = 1 /\ PresentsLoginToken) =>
        /\ obs.authNext = 1
        /\ ~Falsy(user)
        /\ user.id = ares.token.claims.id
        /\ (pc = "done" /\ req.route.name = "getProfile") => obs.handlerRuns = 1


-----------------------------------------------------------------------------
(* validate(schemas): the Joi validation middleware                         *)

\* the request properties a schema may be given for
ValidationTargets == {"body", "params", "query"}

\* rule violations one request property may have against its schema
MaxViolations == 2

\* Object.keys(schemas): the keys of the schemas object, in insertion order
SchemaKeys ==
    {s \in UNION {[1..n -> ValidationTargets] : n \in 0..3} :
        \A i, j \in DOMAIN s : i # j => s[i] # s[j]}

\* req.body, req.params, req.query, each by the number of rules of its schema
\* the data breaks
RequestData == [ValidationTargets -> 0..MaxViolations]

\* schema.validate(data, { abortEarly: false, allowUnknown: false }):
\* error is undefined for conforming data, and otherwise carries one detail
\* for every broken rule
Joi_validate(target, data) ==
    IF data = 0 THEN [error |-> NULL]
    ELSE [error |-> [details |-> [k \in 1..data |-> [message |-> <<target, k>>]]]]

\* validationTargets.forEach(target => { ... errors.push(...) })
RECURSIVE validateEach(_, _, _, _)
validateEach(targets, r, errors, validated) ==
    IF targets = <<>> THEN [errors |-> errors, validated |-> validated]
    ELSE LET target == Head(targets)
             data   == r[target]
             error  == Joi_validate(target, data).error
         IN  validateEach(Tail(targets), r,
                 IF error # NULL
                 THEN Append(errors,
                        [location |-> target,
                         details  |-> [k \in DOMAIN error.details |->
                                         error.details[k].message]])
                 ELSE errors,
                 Append(validated, target))

\* what one run of the middleware did
Validated(each, errors) ==
    IF Len(errors) > 0
    THEN [kind |-> "respond", status |-> 400,
          body |-> [message |-> "Validation failed", errors |-> errors],
          sent |-> 1, nexts |-> 0, validated |-> each.validated]
    ELSE [kind |-> "next", status |-> 0, body |-> NULL,
          sent |-> 0, nexts |-> 1, validated |-> each.validated]

\* a middleware that reports the first failing property alone
validateFirstErrorOnly(schemas, r) ==
    LET each == validateEach(schemas, r, <<>>, <<>>)
    IN  Validated(each, IF each.errors = <<>> THEN <<>> ELSE <<Head(each.errors)>>)

\* validate(schemas)(req, res, next)
validate(schemas, r) ==
    LET each == validateEach(schemas, r, <<>>, <<>>)
    IN  Validated(each, each.errors)

ValidateInit == /\ now = 0
                /\ env \in {e \in Envs : e.TOKEN_SECRET = e.JWT_SECRET}
                /\ PipelineIdle
                /\ TokenIdle
                /\ AccountIdle
                /\ PasswordIdle
                /\ ServerIdle

\* a request reaches a route guarded by validate(schemas)
ValidateServe ==
    /\ inflight = <<>>
    /\ \E schemas \in SchemaKeys, r \in RequestData :
         inflight' = <<[schemas |-> schemas, data |-> r, out |-> validate(schemas, r)]>>
    /\ UNCHANGED <<now, env, pc, req, user, res, obs, tin, tout, tpc, db, ares,
                   rng, hashes, cmp, catalog, document>>

\* the response is written, or the rest of the chain has run
ValidateEnd ==
    /\ inflight # <<>>
    /\ inflight' = <<>>
    /\ UNCHANGED <<now, env, pc, req, user, res, obs, tin, tout, tpc, db, ares,
                   rng, hashes, cmp, catalog, document>>

ValidateNext == ValidateServe \/ ValidateEnd

ValidateSpec == ValidateInit /\ [][ValidateNext]_vars

\* the schema keys whose request property breaks its schema, in key order
FailingTargets(v) == SelectSeq(v.schemas, LAMBDA t : v.data[t] > 0)

\* C31: validate(schemas) validates every schema key, also after an earlier
\* one failed; it calls next exactly once and sends nothing exactly when no
\* property has an error, and otherwise answers 400 with one error entry per
\* failing property, in schema-key order, and does not call next
C31_ValidateCollectsAll ==
    \A i \in DOMAIN inflight :
        LET v       == inflight[i]
            failing == FailingTargets(v)
        IN  /\ v.out.validated = v.schemas
            /\ (v.out.nexts = 1 /\ v.out.sent = 0) <=> (failing = <<>>)
            /\ v.out.nexts <= 1
            /\ failing # <<>> =>
                  /\ v.out.nexts = 0
                  /\ v.out.sent = 1
                  /\ v.out.status = 400
                  /\ v.out.body.message = "Validation failed"
                  /\ Len(v.out.body.errors) = Len(failing)
                  /\ \A k \in DOMAIN failing :
                        /\ v.out.body.errors[k].location = failing[k]
                        /\ Len(v.out.body.errors[k].details) = v.data[failing[k]]

\* body and query fail, params passes: two entries, body before query
C31_Witness ==
    /\ inflight # <<>>
    /\ inflight[1].schemas = <<"body", "params", "query">>
    /\ inflight[1].data["body"] > 0
    /\ inflight[1].data["params"] = 0
    /\ inflight[1].data["query"] > 0
    /\ inflight[1].out.status = 400
    /\ Len(inflight[1].out.body.errors) = 2
    /\ inflight[1].out.validated = <<"body", "params", "query">>


\* C32 (as claimed): every run of authMiddleware, of verifyToken
\* (src/middleware/authMiddleware.js) and of rbacMiddleware(R) ends having
\* either sent one response or called next once, never both and never
\* neither, whatever the request and whatever role its claims carry.
C32_ExactlyOneOutcome ==
    /\ (obs.authRuns = 1 /\ obs.rbacRuns = 0 /\ obs.handlerRuns = 0) =>
          obs.authNext + obs.sent = 1
    /\ obs.rbacRuns = 1 =>
          /\ obs.threw = 0
          /\ obs.rbacNext + (IF obs.rbacStatus # 0 THEN 1 ELSE 0) = 1

=============================================================================
